---------------------------- MODULE Spec2Model ----------------------------
(***************************************************************************)
(* The reactive graph of the `observatory` crate: observables, derivations *)
(* with automatic dependency capture, and the STALE/READY propagation.     *)
(*                                                                         *)
(* Nodes are numbered in creation order.  A top-level write runs as a      *)
(* sequence of steps over an explicit call stack of broadcast loops, one   *)
(* step per notification delivered (send_stale, or send_ready with the     *)
(* update it triggers), so the intermediate states of a propagation are    *)
(* states of the model.                                                    *)
(***************************************************************************)
EXTENDS Integers, Sequences, FiniteSets, TLC

\* Bounds of the model.
MaxNodes == 4
MaxVal == 1
MaxThreads == 2
MaxGuards == 1
MaxRefs == 2
MaxClones == 1
MaxReads == 3
RuntimeNodes == 2

Nodes == 1..MaxNodes
Threads == 1..MaxThreads
Slots == 1..MaxClones

\* The thread the single-threaded programs run on.
MainThread == 1
Values == 0..MaxVal
Modulus == MaxVal + 1

VARIABLES
    status,                    \* node -> "free" | "live" | "dead"
    held,                      \* node -> the user holds a handle to it
    prog,                      \* derivation -> its compute closure
    value,                     \* ObservableData.value / DerivationData.value
    observers,                 \* ObserverList.observers (the Cell<Vec<Weak>>)
    observing,                 \* DerivationData.observing
    num_stale_notifications,   \* DerivationData.num_stale_notifications
    should_update,             \* DerivationData.should_update
    stack,                     \* call stack of running broadcast loops
    op,                        \* the top-level operation in progress
    log,                       \* notifications and computes of this operation
    panic,                     \* "none", or the panic that aborted the program
    wrapped,                   \* a usize operation has wrapped (release build)
    acquired,                  \* <<d, y>>: a recompute of d added y, still listed
    refcell,                   \* node -> borrow flag of its value RefCell:
                               \*   -1 a write guard, k >= 0 read guards
    MAIN_THREAD,               \* the AtomicCell: 0 for None, else the owner
    tstate,                    \* thread -> "idle" | "loaded" (inside init)
    home,                      \* node -> the thread that created it
    OBSERVING_STACK,           \* thread -> its capture stack
    clones,                    \* slot -> a cloned handle [from, ptr]
    guards,                    \* node -> live guard objects [r, w]
    immutable_refs,            \* ObservableData.immutable_refs (src/src)
    mutable_ref,               \* ObservableData.mutable_ref (src/src)
    ref_count,                 \* PtrTarget.ref_count (src/src/ptr.rs)
    weak_count,                \* PtrTarget.weak_count (debug builds only)
    target,                    \* the PtrTarget cell and the handles to it
    layer_group_stack,         \* DrawContext.layer_group_stack
    state_stack,               \* DrawContext.state_stack
    state,                     \* DrawContext.state
    calls,                     \* draw_child calls under way
    drawn,                     \* calls made on the DrawContext so far
    returned                   \* draw_child calls that have returned

vars == <<status, held, prog, value, observers, observing,
          num_stale_notifications, should_update, stack, op, log, panic,
          wrapped, acquired, refcell, MAIN_THREAD, tstate, home,
          OBSERVING_STACK, clones, guards, immutable_refs, mutable_ref,
          ref_count, weak_count, target, layer_group_stack, state_stack, state,
          calls, drawn, returned>>

\* The reference-counted cell of src/src/ptr.rs.
thin == <<ref_count, weak_count, target>>

\* The draw context of astro_gui.
draw == <<layer_group_stack, state_stack, state, calls, drawn,
          returned>>

\* The borrow state of the nodes' values.
borrows == <<refcell, guards, immutable_refs, mutable_ref>>

\* What the propagation of a write leaves alone.
env == <<borrows, MAIN_THREAD, tstate, home, clones, thin, draw>>

graph == <<status, held, prog, value, observers, observing,
           num_stale_notifications, should_update>>

----------------------------------------------------------------------------
\* Sequence helpers.

Contains(list, x) == \E i \in 1..Len(list) : list[i] = x

Range(list) == {list[i] : i \in 1..Len(list)}

\* Vec::iter().position: index of the first element equal to x, 0 for None.
Position(list, x) ==
    IF Contains(list, x)
    THEN CHOOSE i \in 1..Len(list) :
            list[i] = x /\ \A j \in 1..(i - 1) : list[j] # x
    ELSE 0

\* Vec::remove(index)
RemoveAt(list, i) == SubSeq(list, 1, i - 1) \o SubSeq(list, i + 1, Len(list))

----------------------------------------------------------------------------
\* The capture stack (static_state.rs).  A compute closure runs to completion
\* inside one step, so the stack is threaded through the evaluation.

push_observing_stack(ostack) == Append(ostack, <<>>)

\* note_observed without the address comparison: every borrow is recorded.
note_observed_every_borrow(ostack, n) ==
    [ostack EXCEPT ![Len(ostack)] = Append(ostack[Len(ostack)], n)]

\* note_observed that compares the nodes' values, not their addresses.
note_observed_by_value(ostack, n) ==
    LET item == ostack[Len(ostack)]
    IN  IF \E i \in 1..Len(item) : value[item[i]] = value[n]
        THEN ostack
        ELSE [ostack EXCEPT ![Len(ostack)] = Append(item, n)]

\* Appends the node to the top frame unless the frame already holds it.
note_observed(ostack, n) ==
    LET item == ostack[Len(ostack)]
    IN  IF Contains(item, n)
        THEN ostack
        ELSE [ostack EXCEPT ![Len(ostack)] = Append(item, n)]

\* pop_observing_stack that returns the top frame and leaves it in place.
pop_observing_stack_peek(ostack) ==
    [top |-> ostack[Len(ostack)], rest |-> ostack]

pop_observing_stack(ostack) ==
    [top |-> ostack[Len(ostack)], rest |-> SubSeq(ostack, 1, Len(ostack) - 1)]

----------------------------------------------------------------------------
\* Compute closures.  A closure is a record [k, a, b] over earlier nodes:
\*   "inc":  *a.borrow() + 1
\*   "add":  *a.borrow() + *b.borrow()    (a = b: the node is borrowed twice)
\*   "cond": if *a.borrow() { *b.borrow() } else { 0 }
\* Arithmetic is on Values.

NoProg == [k |-> "none", a |-> 0, b |-> 0]

Closures(S) ==
    [k : {"inc"}, a : S, b : {0}]
      \cup {p \in [k : {"add"}, a : S, b : S] : p.a <= p.b}
      \cup {p \in [k : {"cond"}, a : S, b : S] : p.a # p.b}

\* The handles a closure captured (ptr_clone! before the move closure).
Captured(p) ==
    IF p.k = "none" THEN {}
    ELSE IF p.k = "inc" THEN {p.a}
    ELSE {p.a, p.b}

\* Runs closure p against the values val: the nodes it borrows, in order.
ReadSeq(p, val) ==
    IF p.k = "inc" THEN <<p.a>>
    ELSE IF p.k = "add" THEN <<p.a, p.b>>
    ELSE IF val[p.a] # 0 THEN <<p.a, p.b>> ELSE <<p.a>>

\* The value closure p returns against val.
Result(p, val) ==
    IF p.k = "inc" THEN (val[p.a] + 1) % Modulus
    ELSE IF p.k = "add" THEN (val[p.a] + val[p.b]) % Modulus
    ELSE IF val[p.a] # 0 THEN val[p.b] ELSE 0

RECURSIVE NoteAll(_, _, _)
NoteAll(ostack, reads, i) ==
    IF i > Len(reads) THEN ostack
    ELSE NoteAll(note_observed(ostack, reads[i]), reads, i + 1)

\* push_observing_stack(); compute_value(); pop_observing_stack()
\* Every borrow() of the closure calls note_observed.
Evaluate(p, val) ==
    LET pushed == push_observing_stack(<<>>)
        noted == NoteAll(pushed, ReadSeq(p, val), 1)
        popped == pop_observing_stack(noted)
    IN  [value |-> Result(p, val), observing |-> popped.top]

----------------------------------------------------------------------------
\* ObserverList (observer.rs).  The list is a Cell<Vec<..>>: every method
\* take()s the vector out of the cell, leaving an empty one, and set()s a
\* vector back.

\* ObserverList::add on the cell contents `cell`
add(cell, d) ==
    IF Contains(cell, d)
    THEN [panic |-> "duplicate_observer", cell |-> cell]
    ELSE [panic |-> "none", cell |-> Append(cell, d)]

\* ObserverList::remove on the cell contents `cell`
remove(cell, d) ==
    LET index == Position(cell, d)
    IN  IF index = 0
        THEN [panic |-> "already_unsubscribed", cell |-> cell]
        ELSE [panic |-> "none", cell |-> RemoveAt(cell, index)]

\* update(): the first loop, over was_observing.
RECURSIVE remove_loop(_, _, _, _, _)
remove_loop(obs, d, was, now, i) ==
    IF i > Len(was) THEN [panic |-> "none", observers |-> obs]
    ELSE IF Contains(now, was[i]) THEN remove_loop(obs, d, was, now, i + 1)
    ELSE LET r == remove(obs[was[i]], d)
         IN  IF r.panic # "none"
             THEN [panic |-> r.panic, observers |-> obs]
             ELSE remove_loop([obs EXCEPT ![was[i]] = r.cell],
                              d, was, now, i + 1)

\* update(): the second loop, over now_observing.
RECURSIVE add_loop(_, _, _, _, _)
add_loop(obs, d, was, now, i) ==
    IF i > Len(now) THEN [panic |-> "none", observers |-> obs]
    ELSE IF Contains(was, now[i]) THEN add_loop(obs, d, was, now, i + 1)
    ELSE LET r == add(obs[now[i]], d)
         IN  IF r.panic # "none"
             THEN [panic |-> r.panic, observers |-> obs]
             ELSE add_loop([obs EXCEPT ![now[i]] = r.cell],
                           d, was, now, i + 1)


----------------------------------------------------------------------------
\* Node kinds and the rest state.

IsObservable(n) == status[n] = "live" /\ prog[n].k = "none"
IsDerivation(n) == status[n] = "live" /\ prog[n].k # "none"

Idle == [type |-> "idle"]

\* No guard object of the node's value is alive.
NoGuard == [r |-> 0, w |-> 0]

\* An unused slot for a cloned handle.
NoClone == [from |-> 0, ptr |-> 0]

\* The next node to be allocated, 0 when the model's nodes are used up.
NextFree ==
    IF \E n \in Nodes : status[n] = "free"
    THEN CHOOSE n \in Nodes : status[n] = "free" /\
                              \A m \in Nodes : status[m] = "free" => n <= m
    ELSE 0

Top == stack[Len(stack)]

\* One entry of the log: a notification sent from a node to an observer, or
\* a run of a compute closure (reads: what it borrowed, with the value and
\* the stale counter each borrowed node had at that point).
Event(t, from, to, ch, reads) ==
    [t |-> t, from |-> from, to |-> to, ch |-> ch, reads |-> reads]

ReadsOf(p) ==
    LET rs == ReadSeq(p, value)
    IN  [i \in 1..Len(rs) |->
            [n |-> rs[i], v |-> value[rs[i]],
             c |-> num_stale_notifications[rs[i]]]]

\* The program has panicked: nothing runs any more.
Abort(why) ==
    /\ panic' = why
    /\ UNCHANGED <<graph, stack, op, log, wrapped, acquired, env,
                   OBSERVING_STACK>>

----------------------------------------------------------------------------
\* The runtime check and the RefCell of a node's value.

\* The check without the comparison of threads: any thread passes once
\* init() has been called.
assert_initialized_only(t) ==
    IF MAIN_THREAD # 0 THEN "none" ELSE "not_initialized"

\* assert_static_state_access on thread t: the panic it raises, or "none".
assert_static_state_access(t) ==
    IF MAIN_THREAD = t THEN "none"
    ELSE IF MAIN_THREAD # 0 THEN "wrong_thread"
    ELSE "not_initialized"

\* The first borrow of closure p that meets a live write guard, as an index
\* into the nodes it borrows; 0 when every borrow succeeds.
Conflict(p, val) ==
    LET rs == ReadSeq(p, val)
        hit == {i \in 1..Len(rs) : refcell[rs[i]] < 0}
    IN  IF hit = {} THEN 0
        ELSE CHOOSE i \in hit : \A j \in hit : i <= j

\* The capture stack a closure leaves behind when its k-th borrow panics:
\* the frame was pushed, the borrows up to the k-th were noted (borrow
\* calls note_observed before it touches the RefCell), nothing was popped.
Interrupted(ostack, p, val, k) ==
    NoteAll(push_observing_stack(ostack), SubSeq(ReadSeq(p, val), 1, k), 1)

----------------------------------------------------------------------------
\* Broadcast loops.

\* The head of a broadcast that takes every other live derivation for an
\* observer of n.
Frame_everyone(kind, n, changed, top) ==
    [kind |-> kind, node |-> n,
     list |-> SelectSeq([i \in 1..MaxNodes |-> i],
                        LAMBDA d : IsDerivation(d) /\ d # n),
     i |-> 1, changed |-> changed, top |-> top]

\* The head of broadcast_stale / broadcast_ready on node n:
\* `let list = self.observers.take()`.
Frame(kind, n, changed, top) ==
    [kind |-> kind, node |-> n, list |-> observers[n], i |-> 1,
     changed |-> changed, top |-> top]

\* after_modified without its broadcast_stale pass: READY goes out at once.
after_modified_ready_only(n) ==
    /\ stack' = <<Frame("ready", n, TRUE, TRUE)>>
    /\ observers' = [observers EXCEPT ![n] = <<>>]

\* ObservableData::after_modified, entered: broadcast_stale begins.
after_modified(n) ==
    /\ stack' = <<Frame("stale", n, TRUE, TRUE)>>
    /\ observers' = [observers EXCEPT ![n] = <<>>]

\* send_stale that broadcasts STALE on every notification it receives.
DeliverStale_every_time ==
    /\ panic = "none"
    /\ stack # <<>>
    /\ Top.kind = "stale"
    /\ Top.i <= Len(Top.list)
    /\ LET f == Top
           d == f.list[f.i]
           old == num_stale_notifications[d]
           advanced == [stack EXCEPT ![Len(stack)].i = f.i + 1]
       IN  IF status[d] # "live" THEN Abort("upgrade_none")
           ELSE
             /\ num_stale_notifications' =
                    [num_stale_notifications EXCEPT ![d] = old + 1]
             /\ log' = Append(log, Event("stale", f.node, d, FALSE, <<>>))
             /\ stack' = Append(advanced, Frame("stale", d, FALSE, FALSE))
             /\ observers' = [observers EXCEPT ![d] = <<>>]
             /\ UNCHANGED <<status, held, prog, value, observing,
                            should_update, op, panic, wrapped, acquired,
                            env, OBSERVING_STACK>>

\* One iteration of broadcast_stale: observer.upgrade().unwrap().send_stale()
\* A counter at usize::MAX (written -1, reached only without overflow
\* checks) wraps to 0 on the increment, which old + 1 gives as well.
DeliverStale ==
    /\ panic = "none"
    /\ stack # <<>>
    /\ Top.kind = "stale"
    /\ Top.i <= Len(Top.list)
    /\ LET f == Top
           d == f.list[f.i]
           old == num_stale_notifications[d]
           advanced == [stack EXCEPT ![Len(stack)].i = f.i + 1]
       IN  IF status[d] # "live" THEN Abort("upgrade_none")
           ELSE
             /\ num_stale_notifications' =
                    [num_stale_notifications EXCEPT ![d] = old + 1]
             /\ log' = Append(log, Event("stale", f.node, d, FALSE, <<>>))
             /\ IF old = 0
                THEN /\ stack' = Append(advanced,
                                        Frame("stale", d, FALSE, FALSE))
                     /\ observers' = [observers EXCEPT ![d] = <<>>]
                ELSE /\ stack' = advanced
                     /\ UNCHANGED observers
             /\ UNCHANGED <<status, held, prog, value, observing,
                            should_update, op, panic, wrapped, acquired,
                            env, OBSERVING_STACK>>

\* DerivationData::update, up to the final broadcast_ready.
update(d) ==
    LET t == home[d]
        access == assert_static_state_access(t)
        k == Conflict(prog[d], value)
        ev == Evaluate(prog[d], value)
        was_observing == observing[d]
        now_observing == ev.observing
        r1 == remove_loop(observers, d, was_observing, now_observing, 1)
        r2 == add_loop(r1.observers, d, was_observing, now_observing, 1)
        changed == ev.value # value[d]
    IN  [panic |-> IF access # "none" THEN access
                   ELSE IF k # 0 THEN "already_mutably_borrowed"
                   ELSE IF r1.panic # "none" THEN r1.panic
                   ELSE IF r2.panic # "none" THEN r2.panic
                   ELSE IF changed /\ refcell[d] # 0 \* self.value.replace
                   THEN "already_borrowed"
                   ELSE "none",
         ostack |-> IF access = "none" /\ k # 0
                    THEN [OBSERVING_STACK EXCEPT
                             ![t] = Interrupted(@, prog[d], value, k)]
                    ELSE OBSERVING_STACK,
         observers |-> r2.observers,
         observing |-> now_observing,
         value |-> IF changed THEN ev.value ELSE value[d],
         changed |-> changed]

\* send_ready(d, changed) once the counter has been decremented to nsn.
ReadyArrived(f, d, nsn) ==
    LET su == should_update[d] \/ f.changed
        advanced == [stack EXCEPT ![Len(stack)].i = f.i + 1]
        ready == Event("ready", f.node, d, f.changed, <<>>)
        u == update(d)
    IN  /\ num_stale_notifications' =
               [num_stale_notifications EXCEPT ![d] = nsn]
        /\ IF nsn # 0
           THEN /\ should_update' = [should_update EXCEPT ![d] = su]
                /\ stack' = advanced
                /\ log' = Append(log, ready)
                /\ panic' = panic
                /\ UNCHANGED <<observers, observing, value, acquired>>
           ELSE IF ~su
           THEN \* self.observers.broadcast_ready(false)
                /\ should_update' = [should_update EXCEPT ![d] = su]
                /\ stack' = Append(advanced, Frame("ready", d, FALSE, FALSE))
                /\ observers' = [observers EXCEPT ![d] = <<>>]
                /\ log' = Append(log, ready)
                /\ panic' = panic
                /\ UNCHANGED <<observing, value, acquired>>
           ELSE \* self.update()
                /\ should_update' = [should_update EXCEPT ![d] = FALSE]
                /\ log' = Append(Append(log, ready),
                                 Event("compute", d, d, u.changed,
                                       ReadsOf(prog[d])))
                /\ panic' = u.panic
                /\ IF u.panic # "none"
                   THEN UNCHANGED <<observers, observing, value, stack,
                                    acquired>>
                   ELSE /\ observing' = [observing EXCEPT ![d] = u.observing]
                        /\ acquired' =
                              {e \in acquired :
                                  e[1] # d \/ Contains(u.observing, e[2])}
                                \cup {<<d, y>> : y \in Range(u.observing)
                                                     \ Range(observing[d])}
                        /\ value' = [value EXCEPT ![d] = u.value]
                        /\ stack' = Append(advanced,
                               [kind |-> "ready", node |-> d,
                                list |-> u.observers[d], i |-> 1,
                                changed |-> u.changed, top |-> FALSE])
                        /\ observers' = [u.observers EXCEPT ![d] = <<>>]
        /\ OBSERVING_STACK' = IF nsn = 0 /\ su THEN u.ostack
                              ELSE OBSERVING_STACK
        /\ UNCHANGED <<status, held, prog, op, env>>

\* One iteration of broadcast_ready:
\* observer.upgrade().unwrap().send_ready(changed)
\* `num_stale_notifications.get() - 1` on a usize that is 0 panics in a build
\* with overflow checks and wraps to usize::MAX (written -1 here) without.
DeliverReady ==
    /\ panic = "none"
    /\ stack # <<>>
    /\ Top.kind = "ready"
    /\ Top.i <= Len(Top.list)
    /\ LET f == Top
           d == f.list[f.i]
           cur == num_stale_notifications[d]
       IN  IF status[d] # "live" THEN Abort("upgrade_none")
           ELSE IF cur = 0
           THEN \/ /\ ~wrapped
                   /\ panic' = "subtract_with_overflow"
                   /\ log' = Append(log, Event("ready", f.node, d,
                                               f.changed, <<>>))
                   /\ UNCHANGED <<graph, stack, op, wrapped, acquired, env,
                                  OBSERVING_STACK>>
                \/ /\ wrapped' = TRUE
                   /\ ReadyArrived(f, d, -1)
           ELSE /\ ReadyArrived(f, d, cur - 1)
                /\ UNCHANGED wrapped

\* The tail of a broadcast loop: `self.observers.set(list)`.  When the loop
\* was after_modified's broadcast_stale, broadcast_ready(true) begins.
EndBroadcast ==
    /\ panic = "none"
    /\ stack # <<>>
    /\ Top.i > Len(Top.list)
    /\ LET f == Top
           rest == SubSeq(stack, 1, Len(stack) - 1)
           restored == [observers EXCEPT ![f.node] = f.list]
       IN  IF f.top /\ f.kind = "stale"
           THEN /\ stack' = Append(rest,
                      [kind |-> "ready", node |-> f.node,
                       list |-> restored[f.node], i |-> 1,
                       changed |-> TRUE, top |-> TRUE])
                /\ observers' = [restored EXCEPT ![f.node] = <<>>]
           ELSE /\ stack' = rest
                /\ observers' = restored
    /\ UNCHANGED <<status, held, prog, value, observing,
                   num_stale_notifications, should_update, op, log, panic,
                   wrapped, acquired, env, OBSERVING_STACK>>

----------------------------------------------------------------------------
\* Top-level operations of the user, taken while nothing is running.

AtRest == panic = "none" /\ op.type = "idle" /\ stack = <<>>

\* What a write remembers of the state it started in.
Begin(type, o, v) ==
    [type |-> type, node |-> o, old |-> value[o], new |-> v,
     pre_value |-> value, pre_observing |-> observing,
     pre_observers |-> observers, pre_status |-> status,
     pre_acquired |-> acquired]

\* Thread t is between two calls.
Runnable(t) == AtRest /\ tstate[t] = "idle"

\* The nodes thread t holds handles to (an Rc does not leave its thread).
Handles(t) == {n \in Nodes : status[n] = "live" /\ held[n] /\ home[n] = t}

\* ObservablePtr::new
NewObservable(t, v) ==
    /\ Runnable(t)
    /\ NextFree # 0
    /\ status' = [status EXCEPT ![NextFree] = "live"]
    /\ held' = [held EXCEPT ![NextFree] = TRUE]
    /\ value' = [value EXCEPT ![NextFree] = v]
    /\ home' = [home EXCEPT ![NextFree] = t]
    /\ UNCHANGED <<prog, observers, observing, num_stale_notifications,
                   should_update, stack, op, log, panic, wrapped, acquired,
                   borrows, MAIN_THREAD, tstate, OBSERVING_STACK, clones, thin,
                   draw>>

\* The loop of DerivationPtr::new with the observer put in front of each
\* observer list.
RECURSIVE subscribe_loop_front(_, _, _, _)
subscribe_loop_front(obs, d, list, i) ==
    IF i > Len(list) THEN [panic |-> "none", observers |-> obs]
    ELSE subscribe_loop_front([obs EXCEPT ![list[i]] = <<d>> \o @],
                              d, list, i + 1)

\* DerivationPtr::new: `for observable in &observing { add_observer }`
RECURSIVE subscribe_loop(_, _, _, _)
subscribe_loop(obs, d, list, i) ==
    IF i > Len(list) THEN [panic |-> "none", observers |-> obs]
    ELSE LET r == add(obs[list[i]], d)
         IN  IF r.panic # "none"
             THEN [panic |-> r.panic, observers |-> obs]
             ELSE subscribe_loop([obs EXCEPT ![list[i]] = r.cell],
                                 d, list, i + 1)

\* DerivationPtr::new with closure p
NewDerivation(t, p) ==
    /\ Runnable(t)
    /\ NextFree # 0
    /\ LET d == NextFree
           access == assert_static_state_access(t)
           k == Conflict(p, value)
           ev == Evaluate(p, value)
           r == subscribe_loop(observers, d, ev.observing, 1)
       IN  IF access # "none" THEN Abort(access)
           ELSE IF k # 0
           THEN /\ panic' = "already_mutably_borrowed"
                /\ OBSERVING_STACK' =
                      [OBSERVING_STACK EXCEPT
                          ![t] = Interrupted(@, p, value, k)]
                /\ UNCHANGED <<graph, stack, op, log, wrapped, acquired,
                               env>>
           ELSE /\ status' = [status EXCEPT ![d] = "live"]
                /\ held' = [held EXCEPT ![d] = TRUE]
                /\ prog' = [prog EXCEPT ![d] = p]
                /\ value' = [value EXCEPT ![d] = ev.value]
                /\ observing' = [observing EXCEPT ![d] = ev.observing]
                /\ observers' = r.observers
                /\ home' = [home EXCEPT ![d] = t]
                /\ panic' = r.panic
                /\ UNCHANGED <<num_stale_notifications, should_update,
                               stack, op, log, wrapped, acquired, borrows,
                               MAIN_THREAD, tstate, OBSERVING_STACK, clones, thin,
                               draw>>

\* ObservablePtr::set: RefCell::borrow_mut panics while a guard is live.
set(t, o, v) ==
    /\ Runnable(t)
    /\ o \in Handles(t) /\ IsObservable(o)
    /\ IF refcell[o] # 0 THEN Abort("already_borrowed")
       ELSE /\ value' = IF v # value[o] THEN [value EXCEPT ![o] = v]
                        ELSE value
            /\ after_modified(o)
            /\ op' = Begin("set", o, v)
            /\ UNCHANGED <<status, held, prog, observing,
                           num_stale_notifications, should_update, log,
                           panic, wrapped, acquired, env, OBSERVING_STACK>>

\* `*o.borrow_mut() = v;` : the guard is taken, written through and dropped
\* (Drop for ObservableRefMut releases the borrow, then after_modified).
borrow_mut_assign(t, o, v) ==
    /\ Runnable(t)
    /\ o \in Handles(t) /\ IsObservable(o)
    /\ IF refcell[o] # 0 THEN Abort("already_borrowed")
       ELSE /\ value' = [value EXCEPT ![o] = v]
            /\ after_modified(o)
            /\ op' = Begin("borrow_mut", o, v)
            /\ UNCHANGED <<status, held, prog, observing,
                           num_stale_notifications, should_update, log,
                           panic, wrapped, acquired, env, OBSERVING_STACK>>

\* The write returns to its caller.
Return ==
    /\ panic = "none"
    /\ op.type # "idle"
    /\ stack = <<>>
    /\ op' = Idle
    /\ log' = <<>>
    /\ UNCHANGED <<graph, stack, panic, wrapped, acquired, env,
                   OBSERVING_STACK>>

----------------------------------------------------------------------------
\* Dropping handles.  A node's strong count is the user's handles, the
\* handles captured by the closures of live derivations and the entries of
\* their observing lists.

\* The count without the Rc's held by closures and observing lists.
StrongRefs_user_only(st, hd, obsing, n) == hd[n]

StrongRefs(st, hd, obsing, n) ==
    \/ hd[n]
    \/ \E d \in Nodes :
          /\ st[d] = "live"
          /\ (n \in Captured(prog[d]) \/ Contains(obsing[d], n))

\* Drop for DerivationData: `for observable in self.observing.take()`
RECURSIVE unsubscribe_loop(_, _, _, _)
unsubscribe_loop(obs, d, list, i) ==
    IF i > Len(list) THEN [panic |-> "none", observers |-> obs]
    ELSE LET r == remove(obs[list[i]], d)
         IN  IF r.panic # "none"
             THEN [panic |-> r.panic, observers |-> obs]
             ELSE unsubscribe_loop([obs EXCEPT ![list[i]] = r.cell],
                                   d, list, i + 1)

\* A strong handle to n has gone.  When it was the last one the node is
\* destroyed: a derivation unsubscribes from what it observes, then its
\* fields are dropped, the closure releasing the handles it captured.
\* g = [status, observers, observing, panic]
RECURSIVE release(_, _, _)
RECURSIVE release_all(_, _, _)
release_all(g, hd, list) ==
    IF list = <<>> \/ g.panic # "none" THEN g
    ELSE release_all(release(g, hd, Head(list)), hd, Tail(list))

release(g, hd, n) ==
    IF g.panic # "none" \/ g.status[n] # "live"
       \/ StrongRefs(g.status, hd, g.observing, n)
    THEN g
    ELSE LET u == unsubscribe_loop(g.observers, n, g.observing[n], 1)
             g1 == [status |-> [g.status EXCEPT ![n] = "dead"],
                    observers |-> u.observers,
                    observing |-> [g.observing EXCEPT ![n] = <<>>],
                    panic |-> u.panic]
             p == prog[n]
             caps == IF p.k = "none" THEN <<>>
                     ELSE IF p.k = "inc" THEN <<p.a>>
                     ELSE <<p.a, p.b>>
         IN  release_all(g1, hd, caps)

\* drop(handle): the user gives up their handles to node n, clones
\* included.  A guard borrows the handle it came from, so none is live.
drop(t, n) ==
    /\ Runnable(t)
    /\ n \in Handles(t) /\ guards[n] = NoGuard
    /\ LET hd == [held EXCEPT ![n] = FALSE]
           g == release([status |-> status, observers |-> observers,
                         observing |-> observing, panic |-> "none"], hd, n)
       IN  /\ held' = hd
           /\ status' = g.status
           /\ observers' = g.observers
           /\ observing' = g.observing
           /\ panic' = g.panic
           /\ acquired' = {e \in acquired : g.status[e[1]] = "live"}
    /\ clones' = [h \in Slots |-> IF clones[h].ptr = n THEN NoClone
                                   ELSE clones[h]]
    /\ UNCHANGED <<prog, value, num_stale_notifications, should_update,
                   stack, op, log, wrapped, borrows, MAIN_THREAD, tstate,
                   home, OBSERVING_STACK, thin, draw>>

----------------------------------------------------------------------------
\* Initial values of the cell of src/src/ptr.rs and of the draw context.

\* No PtrTarget has been allocated.  checks: the build has debug_assertions;
\* strong, weak: the ThinPtr and WeakThinPtr handles the user holds; stored:
\* the WeakThinPtr handles inside the value; builder: new_cyclic's temporary
\* handle is alive; after_free: a count was read or written after dealloc;
\* bad_read: the value was read while uninitialised, dropped or freed;
\* kept: the handles the builder of new_cyclic put into the value.
NoTarget ==
    [cell |-> "none", checks |-> FALSE, strong |-> 0, weak |-> 0,
     stored |-> 0, builder |-> FALSE, value_drops |-> 0, deallocs |-> 0,
     after_free |-> FALSE, bad_read |-> FALSE, kept |-> 0]

\* The heights a layer or a layer group is given.
MaxHeight == 1
Heights == 0..MaxHeight

\* LayerGroup::new
LayerGroup_new ==
    [layers |-> [h \in Heights |-> <<>>],
     subgroups |-> [h \in Heights |-> <<>>]]

\* DrawContextState::new: the identity transform (a translation, by its
\* offset), white fill, layer 0.
DrawContextState_new == [transform |-> 0, fill_mode |-> "white", layer |-> 0]

----------------------------------------------------------------------------
\* The single-threaded program: observatory::init() has been called on the
\* main thread, which then builds and writes the graph.

\* Nothing has been allocated and no thread is inside a call.
Empty ==
    /\ status = [n \in Nodes |-> "free"]
    /\ held = [n \in Nodes |-> FALSE]
    /\ prog = [n \in Nodes |-> NoProg]
    /\ value = [n \in Nodes |-> 0]
    /\ observers = [n \in Nodes |-> <<>>]
    /\ observing = [n \in Nodes |-> <<>>]
    /\ num_stale_notifications = [n \in Nodes |-> 0]
    /\ should_update = [n \in Nodes |-> FALSE]
    /\ stack = <<>>
    /\ op = Idle
    /\ log = <<>>
    /\ panic = "none"
    /\ wrapped = FALSE
    /\ acquired = {}
    /\ refcell = [n \in Nodes |-> 0]
    /\ guards = [n \in Nodes |-> NoGuard]
    /\ immutable_refs = [n \in Nodes |-> 0]
    /\ mutable_ref = [n \in Nodes |-> FALSE]
    /\ tstate = [t \in Threads |-> "idle"]
    /\ home = [n \in Nodes |-> 0]
    /\ OBSERVING_STACK = [t \in Threads |-> <<>>]
    /\ clones = [h \in Slots |-> NoClone]
    /\ ref_count = 0
    /\ weak_count = 0
    /\ target = NoTarget
    /\ layer_group_stack =
           <<[height |-> 0, group |-> LayerGroup_new,
              began |-> [state |-> DrawContextState_new, size |-> 0,
                         dipped |-> FALSE]]>>
    /\ state_stack = <<>>
    /\ state = DrawContextState_new
    /\ calls = <<>>
    /\ drawn = 0
    /\ returned = 0

Init == Empty /\ MAIN_THREAD = MainThread

Construct(t) == \E v \in Values : NewObservable(t, v)
Derive(t) == \E p \in Closures(Handles(t)) : NewDerivation(t, p)
Write(t) == \E o \in Nodes, v \in Values : set(t, o, v)
WriteThroughGuard(t) ==
    \E o \in Nodes, v \in Values : borrow_mut_assign(t, o, v)
DropHandle(t) == \E n \in Nodes : drop(t, n)

Next ==
    \/ Construct(MainThread)
    \/ Derive(MainThread)
    \/ Write(MainThread)
    \/ WriteThroughGuard(MainThread)
    \/ DropHandle(MainThread)
    \/ DeliverStale
    \/ DeliverReady
    \/ EndBroadcast
    \/ Return

Spec == Init /\ [][Next]_vars

----------------------------------------------------------------------------
\* init() and the guards of a node's value (observable.rs, observer.rs).

\* Thread t is not inside a call: no init of its own is under way and no
\* write it started is propagating.
Free(t) ==
    /\ panic = "none"
    /\ tstate[t] = "idle"
    /\ op.type # "idle" => home[op.node] # t

\* init(), first half: `if MAIN_THREAD.load().is_some() { panic!(..) }`
\* with the test left out.
init_load_unchecked(t) ==
    /\ Free(t)
    /\ tstate' = [tstate EXCEPT ![t] = "loaded"]
    /\ UNCHANGED <<graph, stack, op, log, panic, wrapped, acquired, borrows,
                   MAIN_THREAD, home, OBSERVING_STACK, clones, thin,
                   draw>>

\* init(), first half: `if MAIN_THREAD.load().is_some() { panic!(..) }`
init_load(t) ==
    /\ Free(t)
    /\ IF MAIN_THREAD # 0 THEN Abort("already_initialized")
       ELSE /\ tstate' = [tstate EXCEPT ![t] = "loaded"]
            /\ UNCHANGED <<graph, stack, op, log, panic, wrapped, acquired,
                           borrows, MAIN_THREAD, home, OBSERVING_STACK,
                           clones, thin,
                           draw>>

\* init(), second half: `MAIN_THREAD.store(Some(thread::current().id()))`
init_store(t) ==
    /\ panic = "none"
    /\ tstate[t] = "loaded"
    /\ MAIN_THREAD' = t
    /\ tstate' = [tstate EXCEPT ![t] = "idle"]
    /\ UNCHANGED <<graph, stack, op, log, panic, wrapped, acquired, borrows,
                   home, OBSERVING_STACK, clones, thin,
                   draw>>

is_initialized == MAIN_THREAD # 0

\* The guard objects alive, over all nodes.
RECURSIVE GuardsUpTo(_)
GuardsUpTo(n) ==
    IF n = 0 THEN 0 ELSE guards[n].r + guards[n].w + GuardsUpTo(n - 1)

GuardCount == GuardsUpTo(MaxNodes)

\* RefCell::borrow on the value of n succeeds: a read guard comes alive.
TakeRef(n) ==
    /\ GuardCount < MaxGuards
    /\ refcell' = [refcell EXCEPT ![n] = @ + 1]
    /\ guards' = [guards EXCEPT ![n].r = @ + 1]
    /\ UNCHANGED <<immutable_refs, mutable_ref>>

\* borrow_untracked that records the read in the capture stack.
borrow_untracked_noting(t, n) ==
    /\ Runnable(t)
    /\ n \in Handles(t)
    /\ IF refcell[n] < 0 THEN Abort("already_mutably_borrowed")
       ELSE /\ TakeRef(n)
            /\ OBSERVING_STACK' =
                  [OBSERVING_STACK EXCEPT ![t] = Append(@, <<n>>)]
            /\ UNCHANGED <<graph, stack, op, log, panic, wrapped, acquired,
                           MAIN_THREAD, tstate, home, clones, thin,
                           draw>>

\* borrow_untracked of ObservablePtr and DerivationPtr
borrow_untracked(t, n) ==
    /\ Runnable(t)
    /\ n \in Handles(t)
    /\ IF refcell[n] < 0 THEN Abort("already_mutably_borrowed")
       ELSE /\ TakeRef(n)
            /\ UNCHANGED <<graph, stack, op, log, panic, wrapped, acquired,
                           MAIN_THREAD, tstate, home, OBSERVING_STACK,
                           clones, thin,
                           draw>>

\* A tracked borrow that takes the RefCell borrow before note_observed.
borrow_ref_first(t, n) ==
    /\ Runnable(t)
    /\ n \in Handles(t)
    /\ refcell[n] >= 0
    /\ TakeRef(n)
    /\ panic' = IF assert_static_state_access(t) # "none"
                THEN assert_static_state_access(t)
                ELSE IF OBSERVING_STACK[t] = <<>>
                THEN "borrowed_outside_derivation"
                ELSE "none"
    /\ UNCHANGED <<graph, stack, op, log, wrapped, acquired, MAIN_THREAD,
                   tstate, home, OBSERVING_STACK, clones, thin,
                   draw>>

\* borrow of ObservablePtr and DerivationPtr, called by the user's own code:
\* note_observed, then RefCell::borrow.
borrow(t, n) ==
    /\ Runnable(t)
    /\ n \in Handles(t)
    /\ LET access == assert_static_state_access(t)
       IN  IF access # "none" THEN Abort(access)
           ELSE IF OBSERVING_STACK[t] = <<>>
           THEN Abort("borrowed_outside_derivation")
           ELSE /\ OBSERVING_STACK' =
                      [OBSERVING_STACK EXCEPT ![t] = note_observed(@, n)]
                /\ IF refcell[n] < 0
                   THEN /\ panic' = "already_mutably_borrowed"
                        /\ UNCHANGED borrows
                   ELSE /\ TakeRef(n)
                        /\ UNCHANGED panic
                /\ UNCHANGED <<graph, stack, op, log, wrapped, acquired,
                               MAIN_THREAD, tstate, home, clones, thin,
                               draw>>

\* A read guard of n goes out of scope.
drop_ref(t, n) ==
    /\ Runnable(t)
    /\ home[n] = t /\ guards[n].r > 0
    /\ refcell' = [refcell EXCEPT ![n] = @ - 1]
    /\ guards' = [guards EXCEPT ![n].r = @ - 1]
    /\ UNCHANGED <<graph, stack, op, log, panic, wrapped, acquired,
                   immutable_refs, mutable_ref, MAIN_THREAD, tstate, home,
                   OBSERVING_STACK, clones, thin,
                   draw>>

\* ObservablePtr::borrow_mut
borrow_mut(t, o) ==
    /\ Runnable(t)
    /\ o \in Handles(t) /\ IsObservable(o)
    /\ IF refcell[o] # 0 THEN Abort("already_borrowed")
       ELSE /\ GuardCount < MaxGuards
            /\ refcell' = [refcell EXCEPT ![o] = -1]
            /\ guards' = [guards EXCEPT ![o].w = @ + 1]
            /\ UNCHANGED <<graph, stack, op, log, panic, wrapped, acquired,
                           immutable_refs, mutable_ref, MAIN_THREAD, tstate,
                           home, OBSERVING_STACK, clones, thin,
                           draw>>

\* `*guard = v` through DerefMut, with v a new value
deref_mut(t, o, v) ==
    /\ Runnable(t)
    /\ home[o] = t /\ guards[o].w > 0
    /\ v # value[o]
    /\ value' = [value EXCEPT ![o] = v]
    /\ UNCHANGED <<status, held, prog, observers, observing,
                   num_stale_notifications, should_update, stack, op, log,
                   panic, wrapped, acquired, env, OBSERVING_STACK>>

\* Drop for ObservableRefMut: `self.raw = None; self.data.after_modified()`
drop_ref_mut(t, o) ==
    /\ Runnable(t)
    /\ home[o] = t /\ guards[o].w > 0 /\ refcell[o] < 0
    /\ refcell' = [refcell EXCEPT ![o] = 0]
    /\ guards' = [guards EXCEPT ![o].w = @ - 1]
    /\ after_modified(o)
    /\ op' = Begin("borrow_mut", o, value[o])
    /\ UNCHANGED <<status, held, prog, value, observing,
                   num_stale_notifications, should_update, log, panic,
                   wrapped, acquired, immutable_refs, mutable_ref,
                   MAIN_THREAD, tstate, home, OBSERVING_STACK, clones, thin,
                   draw>>

\* The program of one thread that calls init() at some point and takes
\* guards; it keeps its handles.
InitCold == Empty /\ MAIN_THREAD = 0

Initialise(t) == init_load(t) \/ init_store(t)
Borrow(t) == \E n \in Nodes : borrow(t, n)
BorrowUntracked(t) == \E n \in Nodes : borrow_untracked(t, n)
DropRef(t) == \E n \in Nodes : drop_ref(t, n)
BorrowMut(t) == \E o \in Nodes : borrow_mut(t, o)
AssignThroughGuard(t) == \E o \in Nodes, v \in Values : deref_mut(t, o, v)
DropRefMut(t) == \E o \in Nodes : drop_ref_mut(t, o)

NextGuards ==
    \/ Initialise(MainThread)
    \/ Construct(MainThread)
    \/ Derive(MainThread)
    \/ Write(MainThread)
    \/ Borrow(MainThread)
    \/ BorrowUntracked(MainThread)
    \/ DropRef(MainThread)
    \/ BorrowMut(MainThread)
    \/ AssignThroughGuard(MainThread)
    \/ DropRefMut(MainThread)
    \/ DeliverStale
    \/ DeliverReady
    \/ EndBroadcast
    \/ Return

SpecGuards == InitCold /\ [][NextGuards]_vars

----------------------------------------------------------------------------
\* Several threads: each may call init() and build a graph of its own.  The
\* calls that touch nodes are taken one at a time; the two halves of init()
\* interleave with everything.

\* The runtime specification allocates this many nodes at most.
RuntimeScope == NextFree # 0 /\ NextFree <= RuntimeNodes

\* A call of thread t that builds, reads or writes the graph.
GraphOp(t) ==
    \/ Construct(t)
    \/ Derive(t)
    \/ Write(t)
    \/ Borrow(t)
    \/ BorrowUntracked(t)
    \/ BorrowMut(t)

NextRuntime ==
    \E t \in Threads :
        \/ Initialise(t)
        \/ RuntimeScope /\ Construct(t)
        \/ RuntimeScope /\ Derive(t)
        \/ Write(t)
        \/ Borrow(t)
        \/ BorrowUntracked(t)
        \/ DropRef(t)
        \/ BorrowMut(t)
        \/ AssignThroughGuard(t)
        \/ DropRefMut(t)
        \/ DeliverStale
        \/ DeliverReady
        \/ EndBroadcast
        \/ Return

SpecRuntime == InitCold /\ [][NextRuntime]_vars

----------------------------------------------------------------------------
\* The observable of src/src/observable.rs: the value sits in an UnsafeCell
\* and borrows are counted by hand in immutable_refs and mutable_ref.  Its
\* guards derive Clone, which copies the pointer and touches no counter.

\* The panics that report a violated borrow rule, in either implementation.
BorrowConflict ==
    {"already_borrowed", "already_mutably_borrowed",
     "immutably_while_mutably", "mutably_while_immutably",
     "mutably_more_than_once"}

\* What the calls on a counted observable leave alone.
uncounted == <<status, held, prog, observers, observing,
               num_stale_notifications, should_update, acquired, refcell,
               MAIN_THREAD, tstate, home, clones, thin,
               draw>>

\* A counted read guard of o comes alive.
CountRef(o) ==
    /\ GuardCount < MaxRefs
    /\ immutable_refs' = [immutable_refs EXCEPT ![o] = @ + 1]
    /\ guards' = [guards EXCEPT ![o].r = @ + 1]
    /\ UNCHANGED mutable_ref

\* ObservablePtr::borrow_untracked
thin_borrow_untracked(t, o) ==
    /\ Runnable(t)
    /\ o \in Handles(t) /\ IsObservable(o)
    /\ IF mutable_ref[o] THEN Abort("immutably_while_mutably")
       ELSE /\ CountRef(o)
            /\ UNCHANGED <<uncounted, value, stack, op, log, panic, wrapped,
                           OBSERVING_STACK>>

\* note_observed of src/src/static_state.rs: the node is pushed onto the
\* innermost frame whether or not the frame lists it.
thin_note_observed(ostack, n) ==
    [ostack EXCEPT ![Len(ostack)] = Append(@, n)]

\* ObservablePtr::borrow, called by the user's own code: the counter is
\* incremented, then note_observed runs its checks.
thin_borrow(t, o) ==
    /\ Runnable(t)
    /\ o \in Handles(t) /\ IsObservable(o)
    /\ IF mutable_ref[o] THEN Abort("immutably_while_mutably")
       ELSE /\ immutable_refs' = [immutable_refs EXCEPT ![o] = @ + 1]
            /\ IF assert_static_state_access(t) # "none"
               THEN /\ panic' = assert_static_state_access(t)
                    /\ UNCHANGED <<guards, OBSERVING_STACK>>
               ELSE IF OBSERVING_STACK[t] = <<>>
               THEN /\ panic' = "borrowed_outside_derivation"
                    /\ UNCHANGED <<guards, OBSERVING_STACK>>
               ELSE /\ OBSERVING_STACK' =
                          [OBSERVING_STACK EXCEPT
                              ![t] = thin_note_observed(@, o)]
                    /\ GuardCount < MaxRefs
                    /\ guards' = [guards EXCEPT ![o].r = @ + 1]
                    /\ UNCHANGED panic
            /\ UNCHANGED <<uncounted, value, stack, op, log, wrapped,
                           mutable_ref>>

\* #[derive(Clone)] on ObservableRef
clone_ref(t, o) ==
    /\ Runnable(t)
    /\ home[o] = t /\ guards[o].r > 0
    /\ GuardCount < MaxRefs
    /\ guards' = [guards EXCEPT ![o].r = @ + 1]
    /\ UNCHANGED <<uncounted, value, stack, op, log, panic, wrapped,
                   immutable_refs, mutable_ref, OBSERVING_STACK>>

\* Drop for ObservableRef: `immutable_refs.set(immutable_refs.get() - 1)`,
\* which on 0 panics with overflow checks and wraps without; a wrapped
\* count is kept modulo 2^64 as a negative number, no lower than -MaxRefs.
thin_drop_ref(t, o) ==
    /\ Runnable(t)
    /\ home[o] = t /\ guards[o].r > 0
    /\ immutable_refs[o] > -MaxRefs
    /\ guards' = [guards EXCEPT ![o].r = @ - 1]
    /\ IF immutable_refs[o] = 0
       THEN \/ /\ ~wrapped
               /\ panic' = "subtract_with_overflow"
               /\ UNCHANGED <<immutable_refs, wrapped>>
            \/ /\ wrapped' = TRUE
               /\ immutable_refs' = [immutable_refs EXCEPT ![o] = -1]
               /\ UNCHANGED panic
       ELSE /\ immutable_refs' = [immutable_refs EXCEPT ![o] = @ - 1]
            /\ UNCHANGED <<panic, wrapped>>
    /\ UNCHANGED <<uncounted, value, stack, op, log, mutable_ref,
                   OBSERVING_STACK>>

\* ObservablePtr::reserve_mut_borrow: the panic it raises, or "none".
reserve_mut_borrow(o) ==
    IF immutable_refs[o] # 0 THEN "mutably_while_immutably"
    ELSE IF mutable_ref[o] THEN "mutably_more_than_once"
    ELSE "none"

\* ObservablePtr::borrow_mut
thin_borrow_mut(t, o) ==
    /\ Runnable(t)
    /\ o \in Handles(t) /\ IsObservable(o)
    /\ IF reserve_mut_borrow(o) # "none" THEN Abort(reserve_mut_borrow(o))
       ELSE /\ GuardCount < MaxRefs
            /\ mutable_ref' = [mutable_ref EXCEPT ![o] = TRUE]
            /\ guards' = [guards EXCEPT ![o].w = @ + 1]
            /\ UNCHANGED <<uncounted, value, stack, op, log, panic, wrapped,
                           immutable_refs, OBSERVING_STACK>>

\* #[derive(Clone)] on ObservableRefMut
clone_ref_mut(t, o) ==
    /\ Runnable(t)
    /\ home[o] = t /\ guards[o].w > 0
    /\ GuardCount < MaxRefs
    /\ guards' = [guards EXCEPT ![o].w = @ + 1]
    /\ UNCHANGED <<uncounted, value, stack, op, log, panic, wrapped,
                   immutable_refs, mutable_ref, OBSERVING_STACK>>

\* Drop for ObservableRefMut: `mutable_ref.set(false); after_modified()`
thin_drop_ref_mut(t, o) ==
    /\ Runnable(t)
    /\ home[o] = t /\ guards[o].w > 0
    /\ guards' = [guards EXCEPT ![o].w = @ - 1]
    /\ mutable_ref' = [mutable_ref EXCEPT ![o] = FALSE]
    /\ after_modified(o)
    /\ op' = Begin("borrow_mut", o, value[o])
    /\ UNCHANGED <<status, held, prog, value, observing,
                   num_stale_notifications, should_update, log, panic,
                   wrapped, acquired, refcell, immutable_refs, MAIN_THREAD,
                   tstate, home, OBSERVING_STACK, clones, thin,
                   draw>>

\* ObservablePtr::set
thin_set(t, o, v) ==
    /\ Runnable(t)
    /\ o \in Handles(t) /\ IsObservable(o)
    /\ IF reserve_mut_borrow(o) # "none" THEN Abort(reserve_mut_borrow(o))
       ELSE /\ value' = IF v # value[o] THEN [value EXCEPT ![o] = v]
                        ELSE value
            /\ after_modified(o)
            /\ op' = Begin("set", o, v)
            /\ UNCHANGED <<status, held, prog, observing,
                           num_stale_notifications, should_update, log,
                           panic, wrapped, acquired, env, OBSERVING_STACK>>

CountedBorrow(t) == \E o \in Nodes : thin_borrow(t, o)
CountedBorrowUntracked(t) == \E o \in Nodes : thin_borrow_untracked(t, o)
CloneRef(t) == \E o \in Nodes : clone_ref(t, o)
CountedDropRef(t) == \E o \in Nodes : thin_drop_ref(t, o)
CountedBorrowMut(t) == \E o \in Nodes : thin_borrow_mut(t, o)
CloneRefMut(t) == \E o \in Nodes : clone_ref_mut(t, o)
CountedDropRefMut(t) == \E o \in Nodes : thin_drop_ref_mut(t, o)
CountedWrite(t) == \E o \in Nodes, v \in Values : thin_set(t, o, v)

\* The program of one thread that builds counted observables and takes,
\* clones and drops their guards.
NextRefs ==
    \/ RuntimeScope /\ Construct(MainThread)
    \/ CountedBorrow(MainThread)
    \/ CountedBorrowUntracked(MainThread)
    \/ CloneRef(MainThread)
    \/ CountedDropRef(MainThread)
    \/ CountedBorrowMut(MainThread)
    \/ CloneRefMut(MainThread)
    \/ AssignThroughGuard(MainThread)
    \/ CountedDropRefMut(MainThread)
    \/ CountedWrite(MainThread)
    \/ EndBroadcast
    \/ Return

SpecRefs == Init /\ [][NextRefs]_vars

----------------------------------------------------------------------------
\* Cloned handles.  A handle is an Rc to the node's data and Clone is
\* Rc::clone: the new handle points to the node of the handle it was made
\* from.

\* The lowest unused slot, or 0.
FreeSlot ==
    IF \E h \in Slots : clones[h] = NoClone
    THEN CHOOSE h \in Slots : clones[h] = NoClone /\
                              \A k \in Slots : clones[k] = NoClone => h <= k
    ELSE 0

\* A Clone that would build a second node holding a copy of the value.
clone_deep(t, n) ==
    /\ Runnable(t)
    /\ n \in Handles(t)
    /\ FreeSlot # 0 /\ NextFree # 0
    /\ status' = [status EXCEPT ![NextFree] = "live"]
    /\ held' = [held EXCEPT ![NextFree] = TRUE]
    /\ value' = [value EXCEPT ![NextFree] = value[n]]
    /\ home' = [home EXCEPT ![NextFree] = t]
    /\ clones' = [clones EXCEPT ![FreeSlot] = [from |-> n, ptr |-> NextFree]]
    /\ UNCHANGED <<prog, observers, observing, num_stale_notifications,
                   should_update, stack, op, log, panic, wrapped, acquired,
                   borrows, MAIN_THREAD, tstate, OBSERVING_STACK, thin,
                   draw>>

\* Clone for ObservablePtr, Clone for DerivationPtr
clone(t, n) ==
    /\ Runnable(t)
    /\ n \in Handles(t)
    /\ FreeSlot # 0
    /\ clones' = [clones EXCEPT ![FreeSlot] = [from |-> n, ptr |-> n]]
    /\ UNCHANGED <<graph, stack, op, log, panic, wrapped, acquired, borrows,
                   MAIN_THREAD, tstate, home, OBSERVING_STACK, thin, draw>>

\* clone.set(v)
set_through(t, h, v) ==
    /\ clones[h] # NoClone
    /\ set(t, clones[h].ptr, v)

\* *clone.borrow_untracked(): the value read through the handle in slot h.
read_through(h) == value[clones[h].ptr]

\* drop(clone): the Rc count falls and the node, which the handle it was
\* cloned from still owns, stays.
drop_clone(t, h) ==
    /\ Runnable(t)
    /\ clones[h] # NoClone /\ home[clones[h].ptr] = t
    /\ clones' = [clones EXCEPT ![h] = NoClone]
    /\ UNCHANGED <<graph, stack, op, log, panic, wrapped, acquired, borrows,
                   MAIN_THREAD, tstate, home, OBSERVING_STACK, thin, draw>>

CloneHandle(t) == \E n \in Nodes : clone(t, n)
WriteThroughClone(t) == \E h \in Slots, v \in Values : set_through(t, h, v)
DropClone(t) == \E h \in Slots : drop_clone(t, h)

\* The program of one thread that also clones its handles and writes
\* through the clones.
NextHandles ==
    \/ Construct(MainThread)
    \/ Derive(MainThread)
    \/ Write(MainThread)
    \/ CloneHandle(MainThread)
    \/ WriteThroughClone(MainThread)
    \/ DropClone(MainThread)
    \/ DeliverStale
    \/ DeliverReady
    \/ EndBroadcast
    \/ Return

SpecHandles == Init /\ [][NextHandles]_vars

----------------------------------------------------------------------------
\* Closures taken one call at a time: DerivationPtr::new pushes a capture
\* frame, the user's closure makes its tracked borrows, possibly building
\* further derivations on the way, and the rest of DerivationPtr::new pops
\* the frame and subscribes.  The constructions in progress are frames of
\* the call stack.

\* The call-stack frame of a DerivationPtr::new whose closure is running:
\* list is the tracked borrows the closure has made so far.
CaptureFrame ==
    [kind |-> "new", node |-> 0, list |-> <<>>, i |-> 1,
     changed |-> FALSE, top |-> FALSE]

\* A closure whose code is taken call by call.
UserProg == [k |-> "user", a |-> 0, b |-> 0]

\* Thread t is running the closure of a derivation under construction.
InClosure(t) ==
    /\ panic = "none" /\ op.type = "idle" /\ tstate[t] = "idle"
    /\ stack # <<>> /\ Top.kind = "new"

\* The nodes not yet allocated.
FreeCount == Cardinality({n \in Nodes : status[n] = "free"})

\* DerivationPtr::new, entered: push_observing_stack, then the closure
\* starts.  Every construction under way will need a node of its own.
begin_new(t) ==
    /\ Runnable(t) \/ InClosure(t)
    /\ FreeCount > Len(stack)
    /\ IF assert_static_state_access(t) # "none"
       THEN Abort(assert_static_state_access(t))
       ELSE /\ stack' = Append(stack, CaptureFrame)
            /\ OBSERVING_STACK' =
                  [OBSERVING_STACK EXCEPT ![t] = push_observing_stack(@)]
            /\ UNCHANGED <<graph, op, log, panic, wrapped, acquired, env>>

\* `*n.borrow()` in the running closure: note_observed, RefCell::borrow,
\* and the guard is dropped at the end of the expression.  A closure makes
\* MaxReads borrows at most.
read(t, n) ==
    /\ InClosure(t)
    /\ n \in Handles(t)
    /\ Len(Top.list) < MaxReads
    /\ IF assert_static_state_access(t) # "none"
       THEN Abort(assert_static_state_access(t))
       ELSE IF OBSERVING_STACK[t] = <<>>
       THEN Abort("borrowed_outside_derivation")
       ELSE /\ OBSERVING_STACK' =
                  [OBSERVING_STACK EXCEPT ![t] = note_observed(@, n)]
            /\ stack' = [stack EXCEPT ![Len(stack)].list = Append(@, n)]
            /\ panic' = IF refcell[n] < 0 THEN "already_mutably_borrowed"
                        ELSE "none"
            /\ UNCHANGED <<graph, op, log, wrapped, acquired, env>>

\* The closure returns v: pop_observing_stack and the rest of
\* DerivationPtr::new.
finish_new(t, v) ==
    /\ InClosure(t)
    /\ NextFree # 0
    /\ IF assert_static_state_access(t) # "none"
       THEN Abort(assert_static_state_access(t))
       ELSE IF OBSERVING_STACK[t] = <<>> THEN Abort("pop_underflow")
       ELSE LET d == NextFree
                popped == pop_observing_stack(OBSERVING_STACK[t])
                r == subscribe_loop(observers, d, popped.top, 1)
            IN  /\ status' = [status EXCEPT ![d] = "live"]
                /\ held' = [held EXCEPT ![d] = TRUE]
                /\ prog' = [prog EXCEPT ![d] = UserProg]
                /\ value' = [value EXCEPT ![d] = v]
                /\ observing' = [observing EXCEPT ![d] = popped.top]
                /\ observers' = r.observers
                /\ home' = [home EXCEPT ![d] = t]
                /\ panic' = r.panic
                /\ stack' = SubSeq(stack, 1, Len(stack) - 1)
                /\ OBSERVING_STACK' =
                      [OBSERVING_STACK EXCEPT ![t] = popped.rest]
                /\ UNCHANGED <<num_stale_notifications, should_update, op,
                               log, wrapped, acquired, borrows, MAIN_THREAD,
                               tstate, clones, thin,
                               draw>>

BeginNew(t) == begin_new(t)
Read(t) == \E n \in Nodes : read(t, n)
FinishNew(t) == \E v \in Values : finish_new(t, v)

\* The program of one thread that builds observables and, closure call by
\* closure call, derivations.
NextCapture ==
    \/ Construct(MainThread)
    \/ BeginNew(MainThread)
    \/ Read(MainThread)
    \/ FinishNew(MainThread)

SpecCapture == Init /\ [][NextCapture]_vars

----------------------------------------------------------------------------
\* ThinPtr and WeakThinPtr (src/src/ptr.rs): one PtrTarget cell, the ThinPtr
\* and WeakThinPtr handles to it, and the two counts.  A build with
\* debug_assertions keeps weak_count, the number of handles of either kind,
\* and frees the cell when it reaches 0; a build without frees the cell with
\* the value and has no Drop for WeakThinPtr.  The code of a method runs
\* over a record c = [rc, wc, tg, panic] of the counts, the cell and the
\* panic raised.

\* The user holds this many handles at most, and a value stores as many.
MaxHandles == 4

\* What the cell's operations leave alone.
beside_thin ==
    <<graph, stack, op, log, wrapped, acquired, borrows, MAIN_THREAD, tstate,
      home, clones, OBSERVING_STACK, draw>>

Cell == [rc |-> ref_count, wc |-> weak_count, tg |-> target, panic |-> "none"]

\* The method goes on to read or write a count of the cell.
touch(c) ==
    IF c.tg.cell = "freed" THEN [c EXCEPT !.tg.after_free = TRUE] ELSE c

\* std::alloc::dealloc(self.0.as_ptr(), layout)
dealloc(c) == [c EXCEPT !.tg.cell = "freed", !.tg.deallocs = @ + 1]

\* PtrTarget::inc_weak
inc_weak(c) ==
    IF c.tg.checks THEN [touch(c) EXCEPT !.wc = @ + 1] ELSE c

\* assert_not_dropped that accepts a strong count of 0.
assert_not_dropped_unchecked(c) == c

\* PtrTarget::assert_not_dropped
assert_not_dropped(c) ==
    IF ~c.tg.checks THEN c
    ELSE IF touch(c).rc = 0
    THEN [touch(c) EXCEPT !.panic = "dropped_or_uninitialized"]
    ELSE touch(c)

\* `&self.0.as_ref().value` read by the caller: the value must be there.
read_value(c) ==
    IF c.panic # "none" \/ c.tg.cell = "init" THEN c
    ELSE [c EXCEPT !.tg.bad_read = TRUE,
                   !.tg.after_free = @ \/ c.tg.cell = "freed"]

\* Drop for WeakThinPtr
WeakThinPtr_drop(c) ==
    IF c.panic # "none" \/ ~c.tg.checks THEN c
    ELSE LET t == touch(c)
         IN  IF t.wc = 0 THEN [t EXCEPT !.panic = "subtract_with_overflow"]
             ELSE LET val == t.wc - 1
                      d == [t EXCEPT !.wc = val]
                  IN  IF val = 0 /\ d.rc = 0 THEN dealloc(d) ELSE d

\* The value's fields are dropped: the WeakThinPtr handles it stores.
RECURSIVE drop_stored(_)
drop_stored(c) ==
    IF c.tg.stored = 0 \/ c.panic # "none" THEN c
    ELSE drop_stored(WeakThinPtr_drop([c EXCEPT !.tg.stored = @ - 1]))

\* std::ptr::drop_in_place(value_ptr)
drop_in_place(c) ==
    drop_stored([c EXCEPT !.tg.cell = "dropped", !.tg.value_drops = @ + 1])

\* Drop for ThinPtr, #[cfg(debug_assertions)]
ThinPtr_drop_debug(c) ==
    LET t == touch(c)
    IN  IF t.rc = 0 THEN [t EXCEPT !.panic = "subtract_with_overflow"]
        ELSE LET refs == t.rc - 1
                 a == [t EXCEPT !.rc = refs]
                 b == touch(IF refs = 0 THEN drop_in_place(a) ELSE a)
             IN  IF b.panic # "none" THEN b
                 ELSE IF b.wc = 0
                 THEN [b EXCEPT !.panic = "subtract_with_overflow"]
                 ELSE LET weak_refs == b.wc - 1
                          e == [b EXCEPT !.wc = weak_refs]
                      IN  IF weak_refs = 0 THEN dealloc(e) ELSE e

\* Drop for ThinPtr, #[cfg(not(debug_assertions))]: a count of 0 wraps to
\* usize::MAX, written -1.
ThinPtr_drop_release(c) ==
    LET t == touch(c)
        val == t.rc - 1
        a == [t EXCEPT !.rc = val]
    IN  IF val = 0 THEN dealloc(drop_in_place(a)) ELSE a

ThinPtr_drop(c) ==
    IF c.tg.checks THEN ThinPtr_drop_debug(c) ELSE ThinPtr_drop_release(c)

\* Clone for ThinPtr as it is without debug_assertions, in every build.
ThinPtr_clone_strong_only(c) == [touch(c) EXCEPT !.rc = @ + 1]

\* Clone for ThinPtr
ThinPtr_clone(c) ==
    IF c.tg.checks THEN [touch(c) EXCEPT !.rc = @ + 1, !.wc = @ + 1]
    ELSE [touch(c) EXCEPT !.rc = @ + 1]

\* Clone for WeakThinPtr
WeakThinPtr_clone(c) == inc_weak(c)

\* The end of new_cyclic without its inc_weak.
new_cyclic_tail_uncounted(c) ==
    WeakThinPtr_drop([c EXCEPT !.rc = 1, !.tg.cell = "init"])

\* new_cyclic after the builder has returned: ptr::write(value_target,
\* value); ref_count.replace(1); inc_weak(); drop(init_weak_ptr)
new_cyclic_tail(c) ==
    WeakThinPtr_drop(inc_weak([c EXCEPT !.rc = 1, !.tg.cell = "init"]))

\* The step of the program that leaves the cell as c.
Leave(c) ==
    /\ ref_count' = c.rc
    /\ weak_count' = c.wc
    /\ target' = c.tg
    /\ panic' = c.panic
    /\ UNCHANGED beside_thin

\* The handles the user holds.
HandleCount == target.strong + target.weak

\* ThinPtr::new, in a build with (b) or without debug_assertions
ThinPtr_new(b) ==
    /\ panic = "none" /\ target.cell = "none"
    /\ Leave([Cell EXCEPT !.rc = 1, !.wc = IF b THEN 1 ELSE 0,
                          !.tg.cell = "init", !.tg.checks = b,
                          !.tg.strong = 1])

\* ThinPtr::new_cyclic up to the call of the builder
new_cyclic_enter(b) ==
    /\ panic = "none" /\ target.cell = "none"
    /\ Leave([Cell EXCEPT !.rc = 0, !.wc = IF b THEN 1 ELSE 0,
                          !.tg.cell = "uninit", !.tg.checks = b,
                          !.tg.builder = TRUE])

\* The builder keeps WeakThinPtr::clone(self_ref) for the value.
builder_clone ==
    /\ panic = "none" /\ target.builder
    /\ target.stored < MaxHandles
    /\ Leave(WeakThinPtr_clone([Cell EXCEPT !.tg.stored = @ + 1,
                                            !.tg.kept = @ + 1]))

\* The builder calls self_ref.deref().
builder_deref ==
    /\ panic = "none" /\ target.builder
    /\ Leave(read_value(assert_not_dropped(Cell)))

\* The builder returns and new_cyclic hands out the ThinPtr.
new_cyclic_return ==
    /\ panic = "none" /\ target.builder
    /\ Leave(new_cyclic_tail([Cell EXCEPT !.tg.builder = FALSE,
                                          !.tg.strong = 1]))

\* ThinPtr::clone(&ptr)
clone_strong ==
    /\ panic = "none" /\ target.strong > 0 /\ HandleCount < MaxHandles
    /\ Leave(ThinPtr_clone([Cell EXCEPT !.tg.strong = @ + 1]))

\* ptr.downgrade()
downgrade ==
    /\ panic = "none" /\ target.strong > 0 /\ HandleCount < MaxHandles
    /\ Leave(inc_weak([Cell EXCEPT !.tg.weak = @ + 1]))

\* *ptr
deref_strong ==
    /\ panic = "none" /\ target.strong > 0
    /\ Leave(read_value(assert_not_dropped(Cell)))

\* drop(ptr)
drop_strong ==
    /\ panic = "none" /\ target.strong > 0
    /\ Leave(ThinPtr_drop([Cell EXCEPT !.tg.strong = @ - 1]))

\* WeakThinPtr::clone(&weak)
clone_weak ==
    /\ panic = "none" /\ target.weak > 0 /\ HandleCount < MaxHandles
    /\ Leave(WeakThinPtr_clone([Cell EXCEPT !.tg.weak = @ + 1]))

\* unsafe { weak.deref() }
deref_weak ==
    /\ panic = "none" /\ target.weak > 0
    /\ Leave(read_value(assert_not_dropped(Cell)))

\* drop(weak)
drop_weak ==
    /\ panic = "none" /\ target.weak > 0
    /\ Leave(WeakThinPtr_drop([Cell EXCEPT !.tg.weak = @ - 1]))

Allocate == \E b \in BOOLEAN : ThinPtr_new(b)
AllocateCyclic == \E b \in BOOLEAN : new_cyclic_enter(b)

NextPtr ==
    \/ Allocate
    \/ AllocateCyclic
    \/ builder_clone
    \/ builder_deref
    \/ new_cyclic_return
    \/ clone_strong
    \/ downgrade
    \/ deref_strong
    \/ drop_strong
    \/ clone_weak
    \/ deref_weak
    \/ drop_weak

SpecPtr == Init /\ [][NextPtr]_vars

----------------------------------------------------------------------------
\* DrawContext (astro_gui/src/lib.rs).  A widget's draw is a sequence of
\* calls on the context; draw_child runs a child's draw between its
\* push_state and its pop_state.  A Transform is the translation it applies,
\* a FillMode its colour.  Each entry of layer_group_stack also remembers,
\* in began, the draw state and the size of state_stack that its
\* begin_layer_group found, and each draw_child under way what it found.

\* state_stack and layer_group_stack hold this many entries at most.
MaxStack == 3

\* draw_child calls nested in each other.
MaxCalls == 2

\* The calls the widgets make on one context.
MaxDraws == 7

\* The largest translation.
MaxOffset == 1

\* The layers of one group with a command, and the subgroups at one height.
MaxCommands == 1

Colors == {"white", "magenta"}

\* What the draw context's operations leave alone.
beside_draw ==
    <<graph, stack, op, log, wrapped, acquired, borrows, MAIN_THREAD, tstate,
      home, clones, OBSERVING_STACK, thin>>

\* The context as a record, for the methods that call other methods.
Context ==
    [layer_group_stack |-> layer_group_stack, state_stack |-> state_stack,
     state |-> state, panic |-> "none"]

\* DrawContext::push_state
push_state(c) == [c EXCEPT !.state_stack = Append(@, c.state)]

\* pop_state that leaves the current state as the child left it.
pop_state_keep(c) ==
    IF c.state_stack = <<>> THEN [c EXCEPT !.panic = "unwrap_none"]
    ELSE [c EXCEPT !.state_stack = SubSeq(@, 1, Len(@) - 1)]

\* DrawContext::pop_state
pop_state(c) ==
    IF c.state_stack = <<>> THEN [c EXCEPT !.panic = "unwrap_none"]
    ELSE [c EXCEPT !.state = c.state_stack[Len(c.state_stack)],
                   !.state_stack = SubSeq(@, 1, Len(@) - 1)]

\* DrawContext::translate
translate(c, offset) == [c EXCEPT !.state.transform = @ + offset]

\* DrawContext::set_layer
set_layer(c, height_index) == [c EXCEPT !.state.layer = height_index]

\* LayerGroup::add_subgroup
add_subgroup(group, height, subgroup) ==
    [group EXCEPT !.subgroups[height] = Append(@, subgroup)]

\* begin_layer_group(height): push the new group, push_state, set_layer(0)
begin_layer_group(c, height) ==
    LET entry == [height |-> height, group |-> LayerGroup_new,
                  began |-> [state |-> c.state,
                             size |-> Len(c.state_stack),
                             dipped |-> FALSE]]
        pushed == [c EXCEPT !.layer_group_stack = Append(@, entry)]
    IN  set_layer(push_state(pushed), 0)

\* end_layer_group: pop (height, group), add_subgroup to the new top,
\* pop_state.  With one group on the stack the debug_assert fails, or,
\* without debug assertions, top_layer_group's unwrap.
end_layer_group(c) ==
    LET n == Len(c.layer_group_stack)
    IN  IF n <= 1 THEN [c EXCEPT !.panic = "no_layer_group"]
        ELSE LET top == c.layer_group_stack[n]
                 popped == [c EXCEPT !.layer_group_stack =
                                         SubSeq(@, 1, n - 1)]
             IN  pop_state(
                    [popped EXCEPT !.layer_group_stack[n - 1].group =
                                       add_subgroup(@, top.height, top.group)])

\* clear: do_command pushes Clear(fill_mode) onto the current layer of the
\* top group.
clear(c) ==
    LET n == Len(c.layer_group_stack)
        command == [clear |-> c.state.fill_mode]
    IN  [c EXCEPT !.layer_group_stack[n].group.layers[c.state.layer] =
                      Append(@, command)]

\* The draw_child calls under way and the layer groups begun remember
\* whether a stack has been shorter than they found it.
Dip(frames, c) ==
    [k \in 1..Len(frames) |->
        [frames[k] EXCEPT !.dipped =
            @ \/ Len(c.state_stack) <= frames[k].old_stack_size
              \/ Len(c.layer_group_stack) < frames[k].old_layer_stack_size]]

DipGroups(c) ==
    [c EXCEPT !.layer_group_stack =
        [k \in 1..Len(c.layer_group_stack) |->
            IF k = 1 THEN c.layer_group_stack[k]
            ELSE [c.layer_group_stack[k] EXCEPT !.began.dipped =
                     @ \/ Len(c.state_stack)
                              <= c.layer_group_stack[k].began.size]]]

\* The step of the widget that leaves the context as c.
Drawn(c) ==
    LET d == DipGroups(c)
    IN  /\ drawn < MaxDraws
        /\ drawn' = drawn + 1
        /\ layer_group_stack' = d.layer_group_stack
        /\ state_stack' = c.state_stack
        /\ state' = c.state
        /\ panic' = c.panic
        /\ UNCHANGED beside_draw

\* The widget that is drawing calls a method of the context.
Call(c) == Drawn(c) /\ calls' = Dip(calls, c) /\ UNCHANGED returned

PushState ==
    /\ panic = "none" /\ Len(state_stack) < MaxStack
    /\ Call(push_state(Context))

PopState ==
    /\ panic = "none"
    /\ Call(pop_state(Context))

Translate ==
    /\ panic = "none"
    /\ \E offset \in 1..MaxOffset :
          /\ state.transform + offset <= MaxOffset
          /\ Call(translate(Context, offset))

\* set_fill_mode / fill_solid_color
SetFillMode ==
    /\ panic = "none"
    /\ \E new \in Colors \ {state.fill_mode} :
          Call([Context EXCEPT !.state.fill_mode = new])

SetLayer ==
    /\ panic = "none"
    /\ \E h \in Heights \ {state.layer} : Call(set_layer(Context, h))

BeginLayerGroup ==
    /\ panic = "none"
    /\ Len(state_stack) < MaxStack /\ Len(layer_group_stack) < MaxStack
    /\ \E h \in Heights : Call(begin_layer_group(Context, h))

EndLayerGroup ==
    /\ panic = "none"
    /\ LET n == Len(layer_group_stack)
       IN  n > 1 =>
              Len(layer_group_stack[n - 1].group.subgroups[
                      layer_group_stack[n].height]) < MaxCommands
    /\ Call(end_layer_group(Context))

\* The commands in the layers of a group, subgroups apart.
Commands(group) == {h \in Heights : group.layers[h] # <<>>}

Clear ==
    /\ panic = "none"
    /\ Cardinality(Commands(
           layer_group_stack[Len(layer_group_stack)].group)) < MaxCommands
    /\ Call(clear(Context))

\* draw_child up to child.draw(self): the sizes are noted, push_state,
\* translate(offset); the child is drawing from here on.
EnterChild ==
    /\ panic = "none"
    /\ Len(calls) < MaxCalls /\ Len(state_stack) < MaxStack
    /\ \E offset \in 0..MaxOffset :
          /\ state.transform + offset <= MaxOffset
          /\ Drawn(translate(push_state(Context), offset))
          /\ calls' = Append(calls,
                 [old_stack_size |-> Len(state_stack),
                  old_layer_stack_size |-> Len(layer_group_stack),
                  old_state |-> state, dipped |-> FALSE])
    /\ UNCHANGED returned

\* draw_child after child.draw(self) has returned: pop_state, then the two
\* debug_assert_eq on the sizes, which a build without debug assertions
\* leaves out.
LeaveChild ==
    /\ panic = "none" /\ calls # <<>>
    /\ LET f == calls[Len(calls)]
           c == pop_state(Context)
           same == /\ Len(c.state_stack) = f.old_stack_size
                   /\ Len(c.layer_group_stack) = f.old_layer_stack_size
       IN  /\ calls' = Dip(SubSeq(calls, 1, Len(calls) - 1), c)
           /\ \/ /\ Drawn(c)
                 /\ returned' = IF c.panic = "none" THEN returned + 1
                                 ELSE returned
              \/ /\ c.panic = "none" /\ ~same
                 /\ Drawn([c EXCEPT !.panic = "assertion_failed"])
                 /\ UNCHANGED returned

NextDraw ==
    \/ PushState
    \/ PopState
    \/ Translate
    \/ SetFillMode
    \/ SetLayer
    \/ BeginLayerGroup
    \/ EndLayerGroup
    \/ Clear
    \/ EnterChild
    \/ LeaveChild

SpecDraw == Init /\ [][NextDraw]_vars

----------------------------------------------------------------------------
\* Vocabulary of the properties.

\* The write has returned to its caller, who has not yet gone on.
Returned == panic = "none" /\ op.type # "idle" /\ stack = <<>>

LiveDerivations == {d \in Nodes : IsDerivation(d)}

\* d's cached value is what its closure returns against the current values.
Fresh(d) == value[d] = Result(prog[d], value)

\* d depends on n through the dependency lists obsing, transitively.
RECURSIVE DependsOn(_, _, _)
DependsOn(obsing, d, n) ==
    \/ Contains(obsing[d], n)
    \/ \E m \in Range(obsing[d]) : DependsOn(obsing, m, n)

\* The events of the log of type t.
Indices(t) == {i \in 1..Len(log) : log[i].t = t}

\* How often the closure of d ran in this operation.
Computes(d) == Cardinality({i \in Indices("compute") : log[i].from = d})

\* Nothing is running: no broadcast loop is on the call stack.
Quiescent == panic = "none" /\ stack = <<>>

\* The notifications of type t that node n sent to observer d.
Sent(t, n, d) == {i \in Indices(t) : log[i].from = n /\ log[i].to = d}

\* The nodes the compute logged at index i borrowed.
Borrowed(i) == {log[i].reads[k].n : k \in 1..Len(log[i].reads)}

\* A node in d's dependency list at the start of the write has a new value.
InputsChanged(d) ==
    \E n \in Range(op.pre_observing[d]) : value[n] # op.pre_value[n]

IsPrefix(a, b) == Len(a) <= Len(b) /\ SubSeq(b, 1, Len(a)) = a

\* No observer list, in its cell or taken by a running broadcast, holds a
\* handle to a derivation that has been destroyed.
NoDangling ==
    /\ \A n \in Nodes : status[n] = "live" =>
          \A d \in Range(observers[n]) : status[d] = "live"
    /\ \A k \in 1..Len(stack) :
          \A d \in Range(stack[k].list) : status[d] = "live"

----------------------------------------------------------------------------
\* Properties.

\* C1 (freshness): once set(v) has returned with v different from the prior
\* value, every live derivation that depends on the written observable,
\* transitively through the dependency lists, caches the value its closure
\* returns against the current values.
C1_Freshness ==
    (Returned /\ op.type = "set" /\ op.new # op.old) =>
        \A d \in LiveDerivations :
            (/\ DependsOn(op.pre_observing, d, op.node)
             /\ DependsOn(observing, d, op.node)) => Fresh(d)

\* C2 (at-most-once recompute): during one top-level write (set, or the
\* release of a borrow_mut guard) no closure runs more than once, and when
\* the write has returned every derivation one of whose inputs changed has
\* run exactly once.
C2_AtMostOnce ==
    /\ \A d \in Nodes : Computes(d) <= 1
    /\ Returned =>
          \A d \in LiveDerivations : InputsChanged(d) => Computes(d) = 1

\* C3 (glitch freedom): whenever a closure runs during a write, every node
\* it borrows has stale counter 0 at that point and already holds the value
\* it has when the write returns.
C3_GlitchFree ==
    \A i \in Indices("compute") :
        \A k \in 1..Len(log[i].reads) :
            /\ log[i].reads[k].c = 0
            /\ Returned => log[i].reads[k].v = value[log[i].reads[k].n]

\* C4 (quiescence): whenever nothing is running, in particular when a write
\* has returned, every live derivation has stale counter 0 and should_update
\* false.
C4_Quiescence ==
    Quiescent =>
        \A d \in LiveDerivations :
            num_stale_notifications[d] = 0 /\ ~should_update[d]

\* C5 (mirror): whenever nothing is running, derivation d lists node n in
\* observing exactly when n lists d in observers.
C5_Mirror ==
    Quiescent =>
        \A d \in LiveDerivations, n \in Nodes :
            Contains(observing[d], n) <=>
                (status[n] = "live" /\ Contains(observers[n], d))

\* C6 (shedding): a recompute of d that no longer borrows a node x of its
\* dependency list removes d from x's observers, and a later write to an
\* observable that d does not depend on any more neither runs d's closure
\* nor changes d's cached value.
C6_Shedding ==
    /\ \A i \in Indices("compute") :
          \A x \in Range(op.pre_observing[log[i].from]) \ Borrowed(i) :
              panic = "none" /\ ~Contains(observers[x], log[i].from)
    /\ Returned =>
          \A d \in LiveDerivations :
              ~DependsOn(op.pre_observing, d, op.node) =>
                  Computes(d) = 0 /\ value[d] = op.pre_value[d]

\* C7 (acquisition): a node y that a recompute of d added to d's dependency
\* list has d among its observers once the write is over, and a later write
\* that changes y runs d's closure exactly once and leaves d fresh.
C7_Acquisition ==
    /\ Quiescent => \A e \in acquired : Contains(observers[e[2]], e[1])
    /\ Returned =>
          \A e \in op.pre_acquired :
              (IsDerivation(e[1]) /\ value[e[2]] # op.pre_value[e[2]]) =>
                  Computes(e[1]) = 1 /\ Fresh(e[1])

\* C8 (subscribe then drop): dropping the last handle to a derivation
\* removes it from the observers of every node of its dependency list, the
\* drop completing without a panic, so that no observer list holds a handle
\* to a destroyed derivation.
C8_DropUnsubscribes ==
    [][(\E t \in Threads, n \in Nodes : drop(t, n)) =>
           (panic' = "none" /\ NoDangling')]_vars

\* C9 (STALE/READY matching): within one write every derivation receives
\* from every node at most one STALE and at most one READY, every READY
\* after the STALE from that node, and as many READY as STALE once the
\* write has returned.
C9_Matching ==
    \A n \in Nodes, d \in Nodes :
        /\ Cardinality(Sent("stale", n, d)) <= 1
        /\ Cardinality(Sent("ready", n, d)) <= 1
        /\ \A r \in Sent("ready", n, d) :
              \E q \in Sent("stale", n, d) : q < r
        /\ Returned =>
              Cardinality(Sent("stale", n, d))
                  = Cardinality(Sent("ready", n, d))

\* The notifications the written observable itself has sent so far.
FromWritten ==
    SelectSeq(log, LAMBDA e : e.t # "compute" /\ e.from = op.node)

\* STALE to each observer registered when the write began, in registration
\* order, then READY(changed=true) to each in the same order.
ExpectedFromWritten ==
    LET regs == op.pre_observers[op.node]
    IN  [i \in 1..Len(regs) |->
            Event("stale", op.node, regs[i], FALSE, <<>>)]
          \o [i \in 1..Len(regs) |->
                Event("ready", op.node, regs[i], TRUE, <<>>)]

\* C10 (notification order): a write sends STALE to each observer of the
\* written observable in registration order and then READY(changed=true) to
\* each in the same order, all of them once it has returned; no STALE, from
\* any node, is delivered after the observable's first READY.
C10_NotificationOrder ==
    op.type # "idle" =>
        /\ IsPrefix(FromWritten, ExpectedFromWritten)
        /\ Returned => FromWritten = ExpectedFromWritten
        /\ \A i \in Indices("stale"), j \in Indices("ready") :
              log[j].from = op.node => i < j

\* A write to an observable with two observers, one of which has an
\* observer of its own, has returned.
C10_Witness ==
    /\ Returned
    /\ Len(op.pre_observers[op.node]) >= 2
    /\ FromWritten = ExpectedFromWritten
    /\ \E i \in Indices("stale") : log[i].from # op.node

\* C11 (minimal invalidation): once a set(x) with x equal to the
\* observable's current value has returned, the value of every node is what
\* it was before the write, every stale counter is 0 and every should_update
\* flag is false.
C11_MinimalInvalidation ==
    (Returned /\ op.type = "set" /\ op.new = op.old) =>
        /\ value = op.pre_value
        /\ \A d \in LiveDerivations :
              num_stale_notifications[d] = 0 /\ ~should_update[d]

\* The list holds no element twice.
NoDup(list) == \A i, j \in 1..Len(list) : list[i] = list[j] => i = j

\* C12 (uniqueness): no dependency list holds a node twice, no observer
\* list, in its cell or taken by a running broadcast, holds an observer
\* twice, and ObserverList::add never panics on a duplicate.
C12_Uniqueness ==
    /\ \A n \in Nodes : NoDup(observing[n]) /\ NoDup(observers[n])
    /\ \A k \in 1..Len(stack) : NoDup(stack[k].list)
    /\ panic # "duplicate_observer"

\* A derivation whose closure borrows the same node twice is registered
\* with it once.
C12_Witness ==
    \E d \in LiveDerivations :
        /\ prog[d].k = "add" /\ prog[d].a = prog[d].b
        /\ observing[d] = <<prog[d].a>>
        /\ Cardinality({i \in 1..Len(observers[prog[d].a]) :
                            observers[prog[d].a][i] = d}) = 1
        /\ panic = "none"

\* A live derivation to which the user holds no handle.
Intermediate(m) == IsDerivation(m) /\ ~held[m]

Releasing == op.type = "borrow_mut"

\* C13 (direct mutation): taking a write guard and assigning through it send
\* no notification and run no closure; releasing the guard first gives up
\* the RefCell borrow and then sends STALE to each observer and READY(true)
\* to each, once; and when the release has returned every derivation that
\* depends on the observable is fresh.
C13_DirectMutation ==
    [][/\ (\E t \in Threads, o \in Nodes :
              borrow_mut(t, o) \/ (\E v \in Values : deref_mut(t, o, v)))
          => /\ UNCHANGED <<stack, log, num_stale_notifications,
                            should_update>>
             /\ \A d \in LiveDerivations : value'[d] = value[d]
       /\ Releasing' =>
             (refcell[op.node] = 0
                /\ IsPrefix(FromWritten, ExpectedFromWritten))'
       /\ (Releasing /\ Returned)' =>
             (/\ FromWritten = ExpectedFromWritten
              /\ \A d \in LiveDerivations :
                    (/\ DependsOn(op.pre_observing, d, op.node)
                     /\ DependsOn(observing, d, op.node)) => Fresh(d))'
      ]_vars

\* C15 (tracked read outside a derivation): a tracked borrow made while the
\* capture stack has no frame fails with the outside-of-derivation panic
\* and leaves the capture stack, the values, the observer lists and the
\* borrow state as they were, and borrow_untracked made in such a state
\* succeeds.
C15_TrackedOutside ==
    [][\A t \in Threads, n \in Nodes :
          OBSERVING_STACK[t] = <<>> =>
              /\ borrow(t, n) =>
                    /\ panic' = "borrowed_outside_derivation"
                    /\ UNCHANGED <<OBSERVING_STACK, value, observers,
                                   borrows>>
              /\ borrow_untracked(t, n) => panic' = "none"
      ]_vars

\* C15 as it holds: on the owning thread a tracked borrow made while the
\* capture stack has no frame fails with the outside-of-derivation panic
\* and leaves the capture stack, the values, the observer lists and the
\* borrow state as they were; borrow_untracked made in such a state
\* succeeds exactly when no write guard of the node is alive.
C15_TrackedOutsideOwner ==
    [][\A t \in Threads, n \in Nodes :
          OBSERVING_STACK[t] = <<>> =>
              /\ (borrow(t, n) /\ MAIN_THREAD = t) =>
                    /\ panic' = "borrowed_outside_derivation"
                    /\ UNCHANGED <<OBSERVING_STACK, value, observers,
                                   borrows>>
              /\ borrow_untracked(t, n) =>
                    (panic' = "none" <=> guards[n].w = 0)
      ]_vars

\* A tracked borrow by the owning thread's own code has failed while a
\* guard of some node was alive.
C15_Witness ==
    /\ panic = "borrowed_outside_derivation"
    /\ MAIN_THREAD = MainThread
    /\ GuardCount > 0

\* C16 (runtime initialisation): is_initialized() turns true only by an
\* init() and never turns false again; an init() that stores into the empty
\* slot records its caller; and an init() called once the runtime is
\* initialised fails with the called-twice panic and leaves the owner as it
\* is.
C16_Initialisation ==
    [][/\ is_initialized => is_initialized'
       /\ (~is_initialized /\ is_initialized') =>
             \E t \in Threads : init_store(t)
       /\ \A t \in Threads :
             /\ (init_store(t) /\ ~is_initialized) => MAIN_THREAD' = t
             /\ (init_load(t) /\ is_initialized) =>
                   /\ panic' = "already_initialized"
                   /\ MAIN_THREAD' = MAIN_THREAD
      ]_vars

\* An init() called after the runtime was initialised has failed.
C16_Witness == panic = "already_initialized" /\ is_initialized

\* C17 (set-once owner): whatever the interleaving of the threads' init()
\* calls, only one of them stores an owner (the store finds the slot
\* empty), and the owner, once set, never changes.
C17_SetOnce ==
    [][/\ \A t \in Threads : init_store(t) => MAIN_THREAD = 0
       /\ MAIN_THREAD # 0 => MAIN_THREAD' = MAIN_THREAD
      ]_vars

\* C18 (confinement): a graph operation (observable construction, set,
\* borrow_mut, borrow_untracked, tracked borrow, derivation construction)
\* called on a thread that is not the owner, or before init(), fails with
\* the runtime's panic and changes nothing.
C18_Confinement ==
    [][\A t \in Threads :
          (GraphOp(t) /\ MAIN_THREAD # t) =>
              /\ panic' \in {"not_initialized", "wrong_thread"}
              /\ UNCHANGED <<graph, borrows>>
      ]_vars

\* C14 (borrow rules): at no time is a write guard of an observable alive
\* together with a read guard or another write guard of it; a read borrow
\* made while no write guard is alive succeeds, whatever read guards there
\* are; a read borrow made while a write guard is alive, and borrow_mut or
\* set made while any guard is alive, fail with a borrow-conflict panic,
\* leave every value as it was and send no notification.
C14_BorrowRules ==
    [][/\ \A o \in Nodes :
             (guards[o].w <= 1 /\ (guards[o].w = 1 => guards[o].r = 0))'
       /\ \A t \in Threads, o \in Nodes :
             /\ (thin_borrow_untracked(t, o) /\ guards[o].w = 0) =>
                   panic' = "none"
             /\ ((thin_borrow_untracked(t, o) \/ thin_borrow(t, o))
                    /\ guards[o].w > 0) =>
                   /\ panic' \in BorrowConflict
                   /\ UNCHANGED <<value, stack, log>>
             /\ ((thin_borrow_mut(t, o)
                    \/ \E v \in Values : thin_set(t, o, v))
                    /\ guards[o] # NoGuard) =>
                   /\ panic' \in BorrowConflict
                   /\ UNCHANGED <<value, stack, log>>
      ]_vars

\* C20 (shared handles): cloning a handle changes no node, no observer list
\* and no dependency list, and the new handle points to the node of the
\* handle it was cloned from; once a set has returned, the value it wrote
\* is what every handle to that node reads, the clones and the handles
\* they were cloned from alike.
C20_SharedHandles ==
    [][/\ \A t \in Threads, n \in Nodes :
             clone(t, n) =>
                /\ UNCHANGED <<status, prog, value, observers, observing>>
                /\ \E h \in Slots :
                      clones[h] = NoClone /\ clones'[h].ptr = n
       /\ (Returned /\ op.type = "set") =>
             \A h \in Slots :
                (clones[h] # NoClone
                    /\ op.node \in {clones[h].from, clones[h].ptr}) =>
                   /\ read_through(h) = op.new
                   /\ value[clones[h].from] = op.new
      ]_vars

\* A set that changed the value of an observable with an observer and a
\* cloned handle has returned.
C20_Witness ==
    /\ Returned /\ op.type = "set" /\ op.old # op.new
    /\ observers[op.node] # <<>>
    /\ \E h \in Slots : clones[h].ptr = op.node /\ read_through(h) = op.new

\* C21 (idempotent untracked read): borrow_untracked on an observable or a
\* derivation leaves the capture stack, the observer lists, the dependency
\* lists, the stale counters, the should_update flags and the values as
\* they are and sends nothing, and so does the release of its guard: the
\* next borrow_untracked of the node reads the value this one read.
C21_UntrackedRead ==
    [][\A t \in Threads, n \in Nodes :
          (borrow_untracked(t, n) \/ drop_ref(t, n)) =>
              UNCHANGED <<OBSERVING_STACK, graph, stack, log>>
      ]_vars

\* borrow_untracked has handed out a read guard of a derivation that
\* observes a node and is observed by another.
C21_Witness ==
    /\ panic = "none"
    /\ \E d \in LiveDerivations :
          /\ guards[d].r > 0
          /\ observing[d] # <<>>
          /\ observers[d] # <<>>

\* C22 (counter never underflows): a READY is delivered to a derivation only
\* while its stale counter is at least 1, so that the decrement of
\* send_ready neither panics nor wraps.
C22_NoUnderflow ==
    [][DeliverReady =>
          (status[Top.list[Top.i]] = "live" =>
              num_stale_notifications[Top.list[Top.i]] >= 1)
      ]_vars

\* Node n is inside one of its own broadcast loops.
Broadcasting(stk, n) == \E k \in 1..Len(stk) : stk[k].node = n

\* C23 (observer-list mutation during broadcast): a running broadcast keeps
\* notifying the observers it started with; no add_observer or
\* remove_observer fails; and when the broadcast of a node returns, the
\* node's observer list holds exactly the live derivations that list the
\* node as a dependency, those registered during the pass included.
C23_MutationDuringBroadcast ==
    [][/\ \A k \in 1..Len(stack) :
             k <= Len(stack') =>
                 /\ stack'[k].node = stack[k].node
                 /\ stack'[k].list = stack[k].list
       /\ panic' \notin {"already_unsubscribed", "duplicate_observer"}
       /\ \A n \in Nodes :
             (EndBroadcast /\ Top.node = n /\ ~Broadcasting(stack', n)) =>
                 \A d \in LiveDerivations :
                     Contains(observing[d], n) <=> Contains(observers'[n], d)
      ]_vars

\* Some READY that d has received in the write so far carried changed=true.
GotChanged(d) == \E i \in Indices("ready") : log[i].to = d /\ log[i].ch

\* C24 (recompute only on change): the closure of a derivation runs only
\* when a READY brings its stale counter back to 0, and then exactly when
\* that READY or an earlier one of the write carried changed=true; when
\* none did, the derivation keeps its cached value and its dependency list
\* and begins to broadcast READY(changed=false) to its observers.
C24_RecomputeOnChange ==
    [][DeliverReady =>
          LET d == Top.list[Top.i]
              got == Top.changed \/ GotChanged(d)
              ran == \E i \in (Len(log) + 1)..Len(log') :
                        log'[i].t = "compute" /\ log'[i].from = d
          IN  status[d] = "live" =>
                  /\ ran => num_stale_notifications[d] = 1
                  /\ num_stale_notifications[d] = 1 =>
                        /\ ran <=> got
                        /\ ~got =>
                              /\ value'[d] = value[d]
                              /\ observing'[d] = observing[d]
                              /\ stack'[Len(stack')].kind = "ready"
                              /\ stack'[Len(stack')].node = d
                              /\ ~stack'[Len(stack')].changed
      ]_vars

\* The closure of d runs in the step.
Recomputes(d) ==
    \E i \in (Len(log) + 1)..Len(log') :
        log'[i].t = "compute" /\ log'[i].from = d

\* The recompute of d has come to its broadcast_ready: the value its
\* closure returns against the current values is cached, the dependency
\* list is what the closure borrowed, should_update is cleared, and the
\* broadcast that begins, with no READY sent yet, carries whether the value
\* differs from the one cached before.
ChangedBit(d) ==
    LET new == Result(prog[d], value)
        f == stack'[Len(stack')]
    IN  /\ value'[d] = new
        /\ Range(observing'[d]) = Range(ReadSeq(prog[d], value))
        /\ ~should_update'[d]
        /\ Len(stack') = Len(stack) + 1
        /\ f.kind = "ready" /\ f.node = d /\ f.i = 1
        /\ f.changed <=> (new # value[d])
        /\ \A i \in (Len(log) + 1)..Len(log') : log'[i].t = "ready" =>
              log'[i].from # d

\* C25 (changed bit): a recompute caches the newly computed value and
\* broadcasts READY(changed=true) exactly when that value differs from the
\* one cached before, READY(changed=false) when it is equal, and the
\* broadcast begins only once the dependency list and the cached value are
\* updated and should_update is cleared.
C25_ChangedBit ==
    [][\A d \in Nodes : Recomputes(d) => ChangedBit(d)]_vars

\* The STALE notifications d has received in the write so far.
StaleTo(d) == {i \in Indices("stale") : log[i].to = d}

\* C26 (STALE forwarding): a derivation that receives STALE adds one to its
\* stale counter and begins to broadcast STALE to its own observers exactly
\* when the counter was 0 before; within one write no derivation sends a
\* second STALE to any of its observers.
C26_StaleForwarding ==
    [][/\ DeliverStale =>
             LET d == Top.list[Top.i]
             IN  status[d] = "live" =>
                     /\ num_stale_notifications'[d] =
                            num_stale_notifications[d] + 1
                     /\ Len(log') = Len(log) + 1
                     /\ IF num_stale_notifications[d] = 0
                        THEN /\ Len(stack') = Len(stack) + 1
                             /\ stack'[Len(stack')].kind = "stale"
                             /\ stack'[Len(stack')].node = d
                             /\ stack'[Len(stack')].list = observers[d]
                        ELSE Len(stack') = Len(stack)
       /\ \A d \in Nodes, e \in Nodes :
             Cardinality(Sent("stale", d, e)) <= 1
      ]_vars

\* A write has returned in which a derivation received STALE from two of
\* its dependencies and sent its observer one.
C26_Witness ==
    /\ Returned
    /\ \E d \in LiveDerivations, e \in LiveDerivations :
          /\ Cardinality(StaleTo(d)) >= 2
          /\ Cardinality(Sent("stale", d, e)) = 1

RECURSIVE Distinct(_)
Distinct(list) ==
    IF list = <<>> THEN <<>>
    ELSE LET init == Distinct(SubSeq(list, 1, Len(list) - 1))
             last == list[Len(list)]
         IN  IF Contains(init, last) THEN init ELSE Append(init, last)

\* C28 (construction): constructing a derivation caches the value its
\* closure returns, sets its stale counter to 0 and should_update to false,
\* stores as its dependency list the distinct nodes the closure borrowed,
\* appends the derivation at the end of the observer list of each of them,
\* leaves every other observer list and every other node as they were and
\* sends no notification.
C28_Construction ==
    [][\A t \in Threads, p \in Closures(Nodes) :
          NewDerivation(t, p) =>
              LET d == NextFree
                  reads == ReadSeq(p, value)
              IN  /\ panic' = "none"
                  /\ status'[d] = "live" /\ prog'[d] = p
                  /\ value'[d] = Result(p, value)
                  /\ num_stale_notifications'[d] = 0
                  /\ ~should_update'[d]
                  /\ observing'[d] = Distinct(reads)
                  /\ \A n \in Nodes :
                        /\ observers'[n] =
                              IF Contains(reads, n)
                              THEN Append(observers[n], d)
                              ELSE observers[n]
                        /\ n # d =>
                              /\ value'[n] = value[n]
                              /\ observing'[n] = observing[n]
                              /\ num_stale_notifications'[n] =
                                    num_stale_notifications[n]
                              /\ should_update'[n] = should_update[n]
                  /\ UNCHANGED <<stack, log>>
      ]_vars

\* A derivation has been constructed whose closure borrowed two nodes, one
\* of which had an observer already.
C28_Witness ==
    /\ AtRest
    /\ \E d \in LiveDerivations :
          /\ Len(observing[d]) = 2
          /\ \A n \in Range(observing[d]) :
                observers[n] # <<>> /\ observers[n][Len(observers[n])] = d
          /\ \E n \in Range(observing[d]) : Len(observers[n]) >= 2

\* C29 (capture frame de-duplication): a tracked borrow of node n inside a
\* closure appends n to the top capture frame exactly when the frame does
\* not hold n, after the entries it has, and leaves the frames below as
\* they are; no frame holds a node twice; and the frame of a running
\* closure holds the nodes the closure has borrowed, each once in the
\* order of their first borrow, whatever their values.
C29_FrameDedup ==
    [][/\ \A t \in Threads, n \in Nodes :
             (read(t, n) /\ OBSERVING_STACK[t] # <<>>) =>
                 LET before == OBSERVING_STACK[t]
                     after == OBSERVING_STACK'[t]
                     item == before[Len(before)]
                 IN  /\ Len(after) = Len(before)
                     /\ \A k \in 1..(Len(before) - 1) : after[k] = before[k]
                     /\ after[Len(after)] =
                           IF Contains(item, n) THEN item
                           ELSE Append(item, n)
       /\ \A t \in Threads :
             \A k \in 1..Len(OBSERVING_STACK[t]) :
                 /\ NoDup(OBSERVING_STACK[t][k])
                 /\ (panic = "none" /\ t = MainThread) =>
                       OBSERVING_STACK[t][k] = Distinct(stack[k].list)
      ]_vars

\* A capture frame holds two different nodes whose values are equal, one of
\* them borrowed twice.
C29_Witness ==
    /\ panic = "none"
    /\ \E k \in 1..Len(OBSERVING_STACK[MainThread]) :
          LET item == OBSERVING_STACK[MainThread][k]
          IN  /\ Len(item) = 2
              /\ item[1] # item[2]
              /\ value[item[1]] = value[item[2]]
              /\ Len(stack[k].list) = 3

\* A recompute of closure p begun on the capture stack ostack: the frame
\* update() pushes, the borrows of the closure, the frame it pops.
EvaluateOn(ostack, p, val) ==
    LET pushed == push_observing_stack(ostack)
        noted == NoteAll(pushed, ReadSeq(p, val), 1)
        popped == pop_observing_stack(noted)
    IN  [observing |-> popped.top, ostack |-> popped.rest]

\* The constructions under way: the DerivationPtr::new frames of the call
\* stack.
UnderWay == {k \in 1..Len(stack) : stack[k].kind = "new"}

\* C30 (capture stack discipline): the capture stack holds one frame for
\* each construction under way and is empty when there is none; no pop
\* meets an empty stack; a construction that completes pops the top frame,
\* which holds the borrows of its own closure and none made by a closure
\* nested in it or around it, and leaves the frames below as they are; and
\* a recompute begun at any point would pop the frame it pushed, with its
\* own borrows, and leave the stack as it found it.
C30_StackDiscipline ==
    [][/\ panic = "none" =>
             /\ Len(OBSERVING_STACK[MainThread]) = Cardinality(UnderWay)
             /\ \A k \in UnderWay :
                   Range(OBSERVING_STACK[MainThread][k])
                       = Range(stack[k].list)
       /\ panic' # "pop_underflow"
       /\ \A t \in Threads, v \in Values :
             finish_new(t, v) =>
                 /\ observing'[NextFree] = Distinct(Top.list)
                 /\ OBSERVING_STACK'[t] =
                       SubSeq(OBSERVING_STACK[t], 1,
                              Len(OBSERVING_STACK[t]) - 1)
       /\ \A p \in Closures(Handles(MainThread)) :
             EvaluateOn(OBSERVING_STACK[MainThread], p, value)
                 = [observing |-> Evaluate(p, value).observing,
                    ostack |-> OBSERVING_STACK[MainThread]]
      ]_vars

\* A closure has borrowed a node and called DerivationPtr::new, and the
\* inner closure has borrowed a node the outer one has not.
C30_Witness ==
    /\ panic = "none"
    /\ Len(stack) = 2 /\ UnderWay = {1, 2}
    /\ stack[1].list # <<>>
    /\ \E n \in Range(stack[2].list) :
          /\ ~Contains(stack[1].list, n)
          /\ ~Contains(OBSERVING_STACK[MainThread][1], n)
          /\ Contains(OBSERVING_STACK[MainThread][2], n)

\* Live derivation d did not depend on the written observable when the
\* write began.
Outside(o, d) ==
    /\ status[d] = "live" /\ prog[d].k # "none"
    /\ ~DependsOn(o.pre_observing, d, o.node)

\* The step ran d's closure or delivered a notification to d.
Touches(d) ==
    /\ Len(log') > Len(log)
    /\ \E i \in (Len(log) + 1)..Len(log') :
          \/ log'[i].t = "compute" /\ log'[i].from = d
          \/ log'[i].t # "compute" /\ log'[i].to = d

\* The step leaves the cached value, the stale counter, the dirty flag and
\* the dependency list of d alone.
KeepsFields(d) ==
    /\ value'[d] = value[d]
    /\ num_stale_notifications'[d] = num_stale_notifications[d]
    /\ should_update'[d] = should_update[d]
    /\ observing'[d] = observing[d]

\* The step changes the value of no observable but the written one.
KeepsObservables ==
    \A n \in Nodes : (IsObservable(n) /\ n # op'.node) => value'[n] = value[n]

\* C31 (frame of a write): no step of a write to observable O runs the
\* closure of, sends STALE or READY to, or changes the cached value, stale
\* counter, dirty flag, dependency list or observer list of a derivation
\* that does not depend on O, and none changes the value of an observable
\* other than O.
C31_WriteFrame ==
    [][op'.type # "idle" =>
          /\ KeepsObservables
          /\ \A d \in Nodes : Outside(op', d) =>
                /\ ~Touches(d)
                /\ KeepsFields(d)
                /\ observers'[d] = observers[d]]_vars

\* C31 as amended: the observer list of a derivation outside O's dependents
\* changes only by the recompute of an observer that depends on O entering
\* or leaving it; everything else of the derivation is left alone.
C31_WriteFrameAmended ==
    [][op'.type # "idle" =>
          /\ KeepsObservables
          /\ \A d \in Nodes : Outside(op', d) =>
                /\ ~Touches(d)
                /\ KeepsFields(d)
                /\ \A e \in Nodes :
                      Contains(observers'[d], e) # Contains(observers[d], e)
                          => DependsOn(op'.pre_observing, e, op'.node)]_vars

\* A write has returned during which a derivation that depends on the written
\* observable subscribed to, or unsubscribed from, one that does not.
C31_Witness ==
    /\ Returned
    /\ \E d \in Nodes :
          /\ Outside(op, d)
          /\ observers[d] # op.pre_observers[d]
          /\ value[d] = op.pre_value[d]
          /\ Computes(d) = 0

----------------------------------------------------------------------------
\* Progress.  A write runs on the caller's thread with no yield point: once
\* after_modified has been entered each broadcast loop goes on to its next
\* iteration and then to its end.

Propagate == DeliverStale \/ DeliverReady \/ EndBroadcast

\* The progress specification allocates this many nodes at most.
LiveNodes == 3

LiveScope == NextFree # 0 /\ NextFree <= LiveNodes

NextLive ==
    \/ LiveScope /\ Construct(MainThread)
    \/ LiveScope /\ Derive(MainThread)
    \/ Write(MainThread)
    \/ WriteThroughGuard(MainThread)
    \/ DropHandle(MainThread)
    \/ Propagate
    \/ Return

SpecLive == Init /\ [][NextLive]_vars /\ WF_vars(Propagate)

\* A recompute of d is still owed: it waits for a READY or is marked dirty.
Pending(d) == num_stale_notifications[d] # 0 \/ should_update[d]

\* C32 (termination): every top-level write eventually returns, and when it
\* has returned no live derivation is still waiting for a READY or marked
\* to be recomputed.
C32_Termination ==
    /\ (op.type # "idle") ~> Returned
    /\ [](Returned => \A d \in LiveDerivations : ~Pending(d))

\* The step ran DerivationData::update on derivation d.
Updates(d) ==
    /\ DeliverReady
    /\ Len(log') = Len(log) + 2
    /\ log'[Len(log')].from = d

\* The call made on thread t was refused by the runtime check, with the
\* panic that fits, and the capture stacks are as they were.
Refused(t) ==
    /\ panic' = IF MAIN_THREAD = 0 THEN "not_initialized" ELSE "wrong_thread"
    /\ OBSERVING_STACK' = OBSERVING_STACK

\* C33 (runtime check on stack operations): the construction of a
\* derivation, a tracked borrow and a recompute, each of which begins with a
\* capture-stack operation, fail with NotInitialized before init() and with
\* WrongThread on a thread that is not the owner, leaving the capture stack
\* untouched; on the owning thread none of them fails with either.
C33_StackAccess ==
    [][/\ \A t \in Threads :
             (Derive(t) \/ Borrow(t)) =>
                 IF MAIN_THREAD # t THEN Refused(t)
                 ELSE panic' \notin {"not_initialized", "wrong_thread"}
       /\ \A d \in Nodes :
             Updates(d) =>
                 IF MAIN_THREAD # home[d] THEN Refused(home[d])
                 ELSE panic' \notin {"not_initialized", "wrong_thread"}
      ]_vars

\* A write made on a thread that lost the ownership to a later init() has
\* reached a recompute, which was refused.
C33_Witness ==
    /\ panic = "wrong_thread"
    /\ op.type = "set"
    /\ stack # <<>>
    /\ log # <<>> /\ log[Len(log)].t = "compute"
    /\ home[op.node] # MAIN_THREAD
    /\ \A t \in Threads : OBSERVING_STACK[t] = <<>>

\* Every node a live derivation lists or has captured is alive.
DependenciesAlive ==
    \A d \in LiveDerivations :
        \A n \in Range(observing[d]) \cup Captured(prog[d]) :
            status[n] = "live"

\* C34 (no leak through back-edges): dropping a handle completes without a
\* panic, leaves no observer list with an entry for a destroyed derivation
\* and no live derivation with a destroyed dependency, and once the user
\* holds no handle at all no observable and no derivation is left alive.
C34_NoLeak ==
    [][(\E t \in Threads, n \in Nodes : drop(t, n)) =>
           /\ panic' = "none"
           /\ NoDangling'
           /\ DependenciesAlive'
           /\ (\A n \in Nodes : ~held'[n]) =>
                  \A n \in Nodes : status'[n] # "live"]_vars

\* The handles to the cell of either kind, those inside the value included.
AllHandles == target.strong + target.weak + target.stored

\* A cell built with debug_assertions is in the user's hands.
InUse == target.checks /\ target.cell \in {"init", "dropped", "freed"}

\* C35 (node cell lifecycle, debug build): whatever clones, downgrades and
\* drops have been made, the value has been destroyed once if no strong
\* handle is left and not at all otherwise, the cell has been deallocated
\* once if no handle of either kind is left and not at all otherwise, no
\* decrement has gone below zero and no count was touched after the
\* deallocation.
C35_CellLifecycle ==
    InUse =>
        /\ target.value_drops = (IF target.strong = 0 THEN 1 ELSE 0)
        /\ target.deallocs = (IF AllHandles = 0 THEN 1 ELSE 0)
        /\ (target.cell = "init") <=> (target.strong > 0)
        /\ (target.cell = "freed") <=> (AllHandles = 0)
        /\ ref_count = target.strong
        /\ weak_count = AllHandles
        /\ panic # "subtract_with_overflow"
        /\ ~target.after_free

\* The last strong handle has been dropped while weak handles are left: the
\* value is destroyed and the cell is still allocated.
C35_Witness ==
    /\ InUse
    /\ target.strong = 0 /\ target.weak = 2
    /\ target.cell = "dropped"
    /\ target.value_drops = 1 /\ target.deallocs = 0

\* C36 (cyclic construction): when new_cyclic returns, the strong count is
\* 1, the handles counted are the returned one and those the builder put
\* into the value, the builder's temporary handle not among them, and the
\* cell is allocated with its value; and dropping the returned handle, the
\* only one outside the value, of a cell whose value stores weak handles to
\* it destroys the value once and deallocates the cell once, without a panic
\* and without touching the cell after the deallocation.
C36_CyclicConstruction ==
    [][/\ new_cyclic_return =>
             /\ panic' = "none"
             /\ ref_count' = 1 /\ target'.strong = 1
             /\ target'.checks => weak_count' = 1 + target'.stored
             /\ ~target'.builder
             /\ target'.cell = "init" /\ target'.deallocs = 0
       /\ (drop_strong /\ target.kept > 0 /\ HandleCount = 1) =>
             /\ panic' = "none"
             /\ target'.value_drops = 1
             /\ target'.deallocs = 1
             /\ target'.cell = "freed"
             /\ ~target'.after_free
      ]_vars

\* The handle returned by new_cyclic, whose value stored two handles to its
\* own cell, has been dropped in a build with debug_assertions.
C36_Witness ==
    /\ target.checks /\ target.kept = 2
    /\ target.cell = "freed"
    /\ target.value_drops = 1 /\ target.deallocs = 1
    /\ panic = "none"

\* C37 (weak dereference guard, debug build): dereferencing a weak handle
\* gives the value, without a panic, while a strong handle to the cell
\* exists; with none left, and inside the builder of new_cyclic, it panics
\* before the value is read.
C37_WeakDerefGuard ==
    [][target.checks =>
          /\ deref_weak =>
                /\ ~target'.bad_read /\ ~target'.after_free
                /\ panic' = (IF target.strong > 0 THEN "none"
                             ELSE "dropped_or_uninitialized")
          /\ builder_deref =>
                /\ ~target'.bad_read /\ ~target'.after_free
                /\ panic' = "dropped_or_uninitialized"
      ]_vars

\* A weak handle was dereferenced after the last strong handle had been
\* dropped.
C37_Witness ==
    /\ target.checks
    /\ panic = "dropped_or_uninitialized"
    /\ target.cell = "dropped" /\ target.strong = 0 /\ target.weak > 0

\* C38 (borrow accounting, counted observable): while the program runs,
\* immutable_refs of an observable is the number of its live read guards
\* and is never decremented at 0, mutable_ref is set exactly while one write
\* guard of it is alive, and every drop of a write guard, which runs
\* after_modified, ends a reservation that a borrow_mut made.
C38_BorrowAccounting ==
    /\ [](panic # "subtract_with_overflow" /\ ~wrapped)
    /\ [](panic = "none" =>
            \A o \in Nodes :
                /\ immutable_refs[o] = guards[o].r
                /\ mutable_ref[o] <=> guards[o].w = 1
                /\ guards[o].w <= 1)
    /\ [][\A t \in Threads, o \in Nodes :
              thin_drop_ref_mut(t, o) => mutable_ref[o]]_vars

\* The child that is drawing has the two stacks at the sizes it found them.
AsFound(f) ==
    /\ Len(state_stack) = f.old_stack_size + 1
    /\ Len(layer_group_stack) = f.old_layer_stack_size

\* The step restores what draw_child call f found.
RestoresCall(f) ==
    /\ panic' = "none"
    /\ state' = f.old_state
    /\ Len(state_stack') = f.old_stack_size
    /\ Len(layer_group_stack') = f.old_layer_stack_size

\* The step ends the layer group on top of the stack: it restores what the
\* group's begin_layer_group found and appends the group to the subgroups
\* of the enclosing group at the group's height.
RestoresGroup ==
    LET n == Len(layer_group_stack)
        e == layer_group_stack[n]
    IN  /\ panic' = "none"
        /\ state' = e.began.state
        /\ Len(state_stack') = e.began.size
        /\ Len(layer_group_stack') = n - 1
        /\ layer_group_stack'[n - 1].group =
               add_subgroup(layer_group_stack[n - 1].group, e.height, e.group)

\* The layer group on top of the stack has the state stack as its
\* begin_layer_group left it.
GroupAsFound ==
    /\ Len(layer_group_stack) > 1
    /\ Len(state_stack) =
           layer_group_stack[Len(layer_group_stack)].began.size + 1

\* C39 (draw-state stack discipline): when a child returns with the state
\* stack and the layer-group stack at the sizes it found, draw_child returns
\* with both sizes and the draw state as they were before the call; and an
\* end_layer_group reached with the state stack at the size its
\* begin_layer_group left restores the draw state and both sizes of before
\* the begin and attaches the group to the enclosing group at its height.
C39_DrawStack ==
    [][/\ (LeaveChild /\ AsFound(calls[Len(calls)])) =>
             RestoresCall(calls[Len(calls)])
       /\ (EndLayerGroup /\ GroupAsFound) => RestoresGroup
      ]_vars

\* C39 as amended: the same, for a child, and for the calls between a
\* begin_layer_group and its end_layer_group, that never take a stack below
\* the size they found.
C39_DrawStackBalanced ==
    [][/\ (LeaveChild /\ AsFound(calls[Len(calls)])
              /\ ~calls[Len(calls)].dipped) =>
             RestoresCall(calls[Len(calls)])
       /\ (EndLayerGroup /\ GroupAsFound
              /\ ~layer_group_stack[Len(layer_group_stack)].began.dipped) =>
             RestoresGroup
      ]_vars

\* A draw_child has returned whose child drew into a layer group of its own
\* at height 1, which is now attached to the root group, and the draw state
\* and the stacks are those of before the call.
C39_Witness ==
    /\ panic = "none"
    /\ returned = 1 /\ calls = <<>>
    /\ state = DrawContextState_new /\ state_stack = <<>>
    /\ Len(layer_group_stack) = 1
    /\ \E g \in Range(layer_group_stack[1].group.subgroups[1]) :
          Commands(g) # {}

=============================================================================
